---- MODULE Spec2Model ----
(***************************************************************************)
(* The tools of the whoop-mcp server (whoop_get_overview,                  *)
(* whoop_get_recovery, whoop_get_strain, whoop_get_history,                *)
(* whoop_get_trends, whoop_get_monthly_summary) as one tool invocation     *)
(* running against a backend that answers or throws.                       *)
(*                                                                         *)
(* Numbers.  A nullable value is <<>> (null / undefined) or <<v>>.         *)
(* recovery_score, calories, HRV and RHR are integers.  day_strain and     *)
(* sleep hours are carried in hundredths (1455 is 14.55); ms_of_sleep is   *)
(* carried in units of 36 000 ms, so that ms / (1000*60*60) hours is the   *)
(* same number of hundredths of an hour.  A value the code rounds to one   *)
(* decimal is carried in tenths (146 is 14.6).  Arithmetic is exact: the   *)
(* rounding error of IEEE doubles is not modelled, its division by zero    *)
(* (Infinity, NaN) is.                                                     *)
(* A date is a day number; its weekday is the day number modulo 7.         *)
(***************************************************************************)
EXTENDS Integers, Sequences, FiniteSets, TLC

VARIABLES
    tool,           \* the tool invoked
    days,           \* whoop_get_history's days argument (the window length otherwise)
    end,            \* the end date of the window
    series,         \* what the backend holds: the baseline answer for each date
    pc,             \* where the handler is suspended
    d,              \* the date of the loop iteration under way
    dailyData,      \* the record list (data in whoop_get_trends)
    live,           \* whoop_live_metadata of the day, between the day's two fetches
    weekdayTotals,  \* whoop_get_history's per-weekday sum and count
    result,         \* what the handler returned
    fetchLog,       \* the calls made to the Data Fetcher that settled, in order
    inflight,       \* the calls made to the Data Fetcher that have not settled
    cur,            \* first argument of the function applied (SpecFn)
    prev,           \* second argument of the function applied (SpecFn)
    out,            \* value of the function applied (SpecFn)
    other,          \* the locals of a second invocation, suspended (Spec2)
    zone            \* the server's time zone: the local calendar day at 00:00 UTC,
                    \* counted from the UTC day (0 at UTC and east of it, -1 west)

vars == <<tool, days, end, series, pc, d, dailyData, live, weekdayTotals,
          result, fetchLog, inflight, cur, prev, out, other, zone>>

(***************************************************************************)
(* Bounds of the model.                                                    *)
(***************************************************************************)
\* largest days argument of whoop_get_history that is tried
MaxDays == 3
\* the backend answers freely on the last MaxFree days of a 14- or 30-day
\* window or of a whoop_get_history longer than MaxDays, and follows its
\* series on the earlier days
MaxFree == 2
\* the day number of the end date
EndDay == 40

(***************************************************************************)
(* Nullable values.                                                        *)
(***************************************************************************)
Null == <<>>
Some(v) == <<v>>
Val(o) == o[1]

\* Math.round(n / dd): the nearest integer, a half rounded up
MathRound(n, dd) ==
    IF dd > 0 THEN (2 * n + dd) \div (2 * dd)
    ELSE (2 * (0 - n) + (0 - dd)) \div (2 * (0 - dd))

(***************************************************************************)
(* Payloads of the Data Fetcher.                                           *)
(***************************************************************************)
Live(rec, strain, ms, cal) ==
    [recovery_score |-> rec, day_strain |-> strain, ms_of_sleep |-> ms,
     calories |-> cal]

CycleMeta == [cycle_id |-> 1, cycle_day |-> "day", sleep_state |-> "complete"]
JournalMeta == [journal_completed |-> TRUE, has_recovery |-> TRUE,
                journal_enabled |-> TRUE]

\* a home payload: metadata, pillars and header, each present or not
Home(meta, pillars, header) ==
    [metadata |-> meta, pillars |-> pillars, header |-> header]

Meta(liveOpt) ==
    [whoop_live_metadata |-> liveOpt, cycle_metadata |-> Some(CycleMeta),
     journal_metadata |-> Some(JournalMeta)]

KeyStatistic == [type |-> "KEY_STATISTIC",
                 content |-> Some([title |-> "HRV", thirty_day |-> Null])]
KeyStatisticWithAverage ==
    [type |-> "KEY_STATISTIC",
     content |-> Some([title |-> "RHR", thirty_day |-> Some("52")])]
OverviewPillar ==
    [type |-> "OVERVIEW",
     sections |-> Some(<<[items |-> Some(<<KeyStatistic, KeyStatisticWithAverage>>)]>>)]
Gauges == [gauges |-> Some(<<[title |-> "Recovery", suffix |-> Null],
                            [title |-> "Sleep", suffix |-> Some("%")]>>)]

\* a complete home payload around the given live metrics
HomeWith(liveOpt) ==
    Home(Some(Meta(liveOpt)), Some(<<OverviewPillar>>), Some(Gauges))
\* a home payload with no metadata block
HomeNoMeta == Home(Null, Some(<<OverviewPillar>>), Some(Gauges))

\* the result of one await of the Data Fetcher: it throws or returns data
Returns(data) == [throws |-> FALSE, data |-> Some(data)]
Throws == [throws |-> TRUE, data |-> Null]

\* a deep-dive item and section
\* status_subtitle is the 30-day baseline; the sleep metric comes without one
Metric(id, status) ==
    [id |-> id, status |-> status,
     status_subtitle |-> IF id = "CONTRIBUTORS_TILE_SLEEP" THEN Null ELSE Some("30d")]
\* a contributors tile with the given metrics and footer, each present or not
TileFooter(metricsOpt, footerOpt) ==
    [type |-> "CONTRIBUTORS_TILE",
     content |-> Some([metrics |-> metricsOpt, footer |-> footerOpt])]
Tile(metricsOpt) == TileFooter(metricsOpt, Null)
\* a footer whose items hold the coach's text
Vow(text) ==
    Some([items |-> Some(<<[type |-> "WHOOP_COACH_VOW",
                           content |-> Some([vow |-> text])]>>)])
\* a score gauge: the score, the fill and (strain) the target and optimal range
GaugeWith(score, fill, target, lower, higher) ==
    [type |-> "SCORE_GAUGE",
     content |-> Some([score_display |-> score, gauge_fill_percentage |-> fill,
                       progress_fill_style |-> "RECOVERY_HIGH",
                       score_target |-> target,
                       lower_optimal_percentage |-> lower,
                       higher_optimal_percentage |-> higher])]
Gauge(score) == GaugeWith(score, Some(64), Null, Null, Null)
\* an activity entry of a strain deep dive
Activity(title) == [type |-> "ACTIVITY", content |-> Some([title |-> title])]
Section(itemsOpt) == [items |-> itemsOpt]
Deep(sectionsOpt, headerOpt) == [sections |-> sectionsOpt, header |-> headerOpt]

\* a deep dive whose contributors tile reports the two status strings
DeepWith(hrvStatus, rhrStatus) ==
    Deep(Some(<<Section(Some(<<Gauge("64")>>)),
               Section(Some(<<Tile(Some(<<Metric("CONTRIBUTORS_TILE_HRV", hrvStatus),
                                         Metric("CONTRIBUTORS_TILE_RHR", rhrStatus),
                                         Metric("CONTRIBUTORS_TILE_SLEEP", "85")>>))>>))>>),
         Some([title |-> "TODAY"]))
DeepNoSections == Deep(Null, Some([title |-> "TODAY"]))
DeepNoMetrics ==
    Deep(Some(<<Section(Null), Section(Some(<<Tile(Null)>>))>>),
         Some([title |-> "TODAY"]))

\* parseFloat on the status strings the samples use; NaN is Null
parseFloat(s) ==
    CASE s = "45" -> Some(45)
      [] s = "55" -> Some(55)
      [] s = "60" -> Some(60)
      [] s = "52" -> Some(52)
      [] s = "85" -> Some(85)
      [] s = "0" -> Some(0)
      [] OTHER -> Null

(***************************************************************************)
(* What the backend may answer.  A day sample is the home answer and the   *)
(* deep-dive answer of one day.                                            *)
(***************************************************************************)
Day(home, deep) == [home |-> home, deep |-> deep]

FreeSamples ==
    { Day(Throws, Throws),
      Day(Returns(HomeNoMeta), Returns(DeepWith("45", "60"))),
      Day(Returns(HomeWith(Null)), Throws),
      Day(Returns(HomeWith(Some(Live(Some(80), Some(1455), Some(725), Some(2100))))),
          Throws),
      Day(Returns(HomeWith(Some(Live(Some(45), Some(700), Some(0), Null)))),
          Returns(DeepWith("55", "52"))),
      Day(Returns(HomeWith(Some(Live(Some(0), Some(0), Null, Some(0))))),
          Returns(DeepWith("--", "0"))),
      Day(Returns(HomeWith(Some(Live(Null, Some(1200), Some(850), Some(1800))))),
          Returns(DeepNoMetrics)),
      Day(Returns(HomeWith(Some(Live(Some(70), Null, Some(640), Null)))),
          Returns(DeepNoSections)),
      Day(Returns(HomeWith(Some(Live(Some(100), Some(2100), Some(900), Some(3000))))),
          Returns(DeepWith("45", "60"))) }

Series == {"flat", "outage", "example", "tiers", "gaps", "zero"}

\* recoveries of the fourteen days ending at the end date, oldest first
ExampleRecoveries == <<60, 62, 58, 65, 61, 59, 63, 70, 72, 68, 75, 71, 69, 73>>
TierRecoveries == <<33, 34, 66, 67, 69, 70, 71>>

\* the answer of series s for a date, endDate being the end of the window
Baseline(s, date, endDate) ==
    CASE s = "flat" ->
           Day(Returns(HomeWith(Some(Live(Some(50), Some(1000), Some(800), Some(2000))))),
               Returns(DeepWith("45", "60")))
      [] s = "outage" -> Day(Throws, Throws)
      [] s = "example" ->
           Day(Returns(HomeWith(Some(Live(
                   Some(IF endDate - date < Len(ExampleRecoveries)
                        THEN ExampleRecoveries[Len(ExampleRecoveries) - (endDate - date)]
                        ELSE 64),
                   Some(1200), Some(700), Some(2500))))),
               \* HRV up and RHR down in the newer week
               Returns(IF endDate - date < 7 THEN DeepWith("55", "52")
                       ELSE DeepWith("45", "60")))
      \* a recovery score of 0 on every day before the newest seven
      [] s = "zero" ->
           Day(Returns(HomeWith(Some(Live(Some(IF endDate - date < 7 THEN 50 ELSE 0),
                                          Some(1000), Some(800), Some(2000))))),
               Returns(DeepWith("45", "60")))
      [] s = "tiers" ->
           Day(Returns(HomeWith(Some(Live(Some(TierRecoveries[(date % 7) + 1]),
                                          Some(350), Some(705), Some(1500))))),
               Returns(DeepWith("60", "45")))
      [] OTHER ->
           IF date % 2 = 0
           THEN Day(Returns(HomeNoMeta), Returns(DeepWith("45", "60")))
           ELSE Day(Returns(HomeWith(Some(Live(Some(70), Some(700), Some(810), Some(2200))))),
                    Returns(DeepWith("52", "55")))

Tools == {"overview", "recovery", "strain", "history", "trends", "monthly"}
MultiDay == {"history", "trends", "monthly"}

\* for (let i = 13; i >= 0; i--): the offset of the first day of the window
TrendsFirstOffset == 13
\* start.setDate(start.getDate() - 29)
MonthlyFirstOffset == 29
\* days: z.number().min(1).max(90)
MaxHistoryDays == 90

\* the first date of the window of a tool
StartOf(t, n, endDate) ==
    CASE t = "trends" -> endDate - TrendsFirstOffset
      [] t = "monthly" -> endDate - MonthlyFirstOffset
      [] OTHER -> endDate - n + 1

\* the answers the backend may give for the date: a short whoop_get_history
\* is answered freely on each of its days
DayOutcomes(t, s, date, endDate) ==
    IF endDate - date < (IF t = "history" /\ days <= MaxDays THEN MaxDays ELSE MaxFree)
    THEN FreeSamples \cup {Baseline(s, date, endDate)}
    ELSE {Baseline(s, date, endDate)}

(***************************************************************************)
(* Field extraction of the multi-day tools (optional chaining throughout). *)
(***************************************************************************)
\* dayData.metadata?.whoop_live_metadata
LiveOf(home) ==
    IF home.metadata = Null THEN Null
    ELSE Val(home.metadata).whoop_live_metadata

\* s.items?.some((i) => i.type === type)
SomeItem(section, type) ==
    /\ section.items # Null
    /\ \E k \in 1..Len(Val(section.items)) : Val(section.items)[k].type = type

\* index of the first element of seq that satisfies Test, 0 if there is none
FindFirst(seq, Test(_)) ==
    LET hits == {k \in 1..Len(seq) : Test(seq[k])}
    IN IF hits = {} THEN 0 ELSE CHOOSE k \in hits : \A j \in hits : k <= j

\* recoveryData.sections?.find(...)?.items?.find(...)?.content
contributorsTile(deep) ==
    IF deep.sections = Null THEN Null
    ELSE LET sections == Val(deep.sections)
             si == FindFirst(sections, LAMBDA s : SomeItem(s, "CONTRIBUTORS_TILE"))
         IN IF si = 0 THEN Null
            ELSE LET items == Val(sections[si].items)
                     ii == FindFirst(items, LAMBDA i : i.type = "CONTRIBUTORS_TILE")
                 IN items[ii].content

\* parseFloat(metric.status) || null: NaN and 0 both give null
ParseOrNull(status) ==
    LET v == parseFloat(status)
    IN IF v = Null \/ Val(v) = 0 THEN Null ELSE v

\* for (const metric of contributorsTile.metrics): a later metric overwrites
RECURSIVE HrvRhr(_, _, _)
HrvRhr(metrics, hrv, rhr) ==
    IF metrics = <<>> THEN [hrv |-> hrv, rhr |-> rhr]
    ELSE LET metric == Head(metrics)
         IN IF metric.id = "CONTRIBUTORS_TILE_HRV"
            THEN HrvRhr(Tail(metrics), ParseOrNull(metric.status), rhr)
            ELSE IF metric.id = "CONTRIBUTORS_TILE_RHR"
            THEN HrvRhr(Tail(metrics), hrv, ParseOrNull(metric.status))
            ELSE HrvRhr(Tail(metrics), hrv, rhr)

\* HRV and RHR of a deep dive that returned
DeepHrvRhr(deep) ==
    LET tile == contributorsTile(deep)
    IN IF tile # Null /\ Val(tile).metrics # Null
       THEN HrvRhr(Val(Val(tile).metrics), Null, Null)
       ELSE [hrv |-> Null, rhr |-> Null]

\* live.ms_of_sleep ? live.ms_of_sleep / (1000 * 60 * 60) : null
SleepHours(ms) == IF ms = Null \/ Val(ms) = 0 THEN Null ELSE ms

(***************************************************************************)
(* Day records.                                                            *)
(***************************************************************************)
TrendsRecord(dateStr, lv, hrv, rhr) ==
    [date |-> dateStr, recoveryScore |-> lv.recovery_score,
     strain |-> lv.day_strain, sleepHours |-> SleepHours(lv.ms_of_sleep),
     hrv |-> hrv, rhr |-> rhr]
TrendsNullRecord(dateStr) ==
    [date |-> dateStr, recoveryScore |-> Null, strain |-> Null,
     sleepHours |-> Null, hrv |-> Null, rhr |-> Null]
MonthlyRecord(dateStr, lv, hrv, rhr) ==
    [date |-> dateStr, recoveryScore |-> lv.recovery_score,
     strain |-> lv.day_strain, sleepHours |-> SleepHours(lv.ms_of_sleep),
     calories |-> lv.calories, hrv |-> hrv, rhr |-> rhr]
HistoryRecord(dateStr, lv) ==
    [date |-> dateStr, recoveryScore |-> lv.recovery_score,
     strain |-> lv.day_strain, sleepHours |-> SleepHours(lv.ms_of_sleep),
     calories |-> lv.calories]
HistoryNullRecord(dateStr) ==
    [date |-> dateStr, recoveryScore |-> Null, strain |-> Null,
     sleepHours |-> Null, calories |-> Null]

weekdays == <<"Sunday", "Monday", "Tuesday", "Wednesday", "Thursday",
              "Friday", "Saturday">>
\* the zones tried: west of UTC, and UTC or east of it
Zones == {0 - 1, 0}
\* weekdays[new Date(dateStr).getDay()]: the date string is read as 00:00 UTC
\* of its day and getDay() is the weekday of that instant in the server's zone
DayOfWeek(dateStr) == weekdays[((dateStr + zone) % 7) + 1]
WeekdayNames == {weekdays[k] : k \in 1..Len(weekdays)}
ZeroTotals == [w \in WeekdayNames |-> [sum |-> 0, count |-> 0]]

\* weekdayTotals after a day of whoop_get_history whose payload has live metrics
TrackWeekday(totals, dateStr, lv) ==
    IF lv.recovery_score # Null
    THEN [totals EXCEPT ![DayOfWeek(dateStr)] =
             [sum |-> @.sum + Val(lv.recovery_score), count |-> @.count + 1]]
    ELSE totals

\* PushDay with whoop_get_trends skipping a day without live metrics
PushDaySkipping(t, data, dateStr, lv, hrv, rhr) ==
    IF lv = Null THEN data
    ELSE IF t = "trends"
    THEN Append(data, TrendsRecord(dateStr, Val(lv), hrv, rhr))
    ELSE Append(data, MonthlyRecord(dateStr, Val(lv), hrv, rhr))

\* the record list after the day's fetches of whoop_get_trends or
\* whoop_get_monthly_summary, lv being the live metrics (or null)
PushDay(t, data, dateStr, lv, hrv, rhr) ==
    IF t = "trends"
    THEN IF lv # Null
         THEN Append(data, TrendsRecord(dateStr, Val(lv), hrv, rhr))
         ELSE Append(data, TrendsNullRecord(dateStr))
    ELSE IF lv # Null
         THEN Append(data, MonthlyRecord(dateStr, Val(lv), hrv, rhr))
         ELSE data

\* the record list after the per-day catch
CatchDay(t, data, dateStr) ==
    CASE t = "history" -> Append(data, HistoryNullRecord(dateStr))
      [] t = "trends" -> Append(data, TrendsNullRecord(dateStr))
      [] OTHER -> data

(***************************************************************************)
(* Aggregation: whoop_get_trends.                                          *)
(***************************************************************************)
\* arr.filter((d) => d[key] != null)
Valid(arr, key) == SelectSeq(arr, LAMBDA r : r[key] # Null)

\* arr.reduce((a, b) => a + b[key], 0), over records whose key is not null
RECURSIVE SumKey(_, _)
SumKey(arr, key) ==
    IF arr = <<>> THEN 0 ELSE Val(Head(arr)[key]) + SumKey(Tail(arr), key)

\* arr.filter(Test).length
CountIf(arr, Test(_)) == Len(SelectSeq(arr, Test))

\* arr.slice(from, to)
Slice(arr, from, to) ==
    LET hi == IF to < Len(arr) THEN to ELSE Len(arr)
    IN IF from >= hi THEN <<>> ELSE SubSeq(arr, from + 1, hi)

\* AvgInt dividing by the length of the window: a null counts as a zero
AvgIntCountingNulls(arr, key) ==
    LET valid == Valid(arr, key)
    IN IF Len(valid) > 0
       THEN Some(MathRound(SumKey(valid, key), Len(arr)))
       ELSE Null

\* valid.length > 0 ? Math.round(sum / valid.length) : null
AvgInt(arr, key) ==
    LET valid == Valid(arr, key)
    IN IF Len(valid) > 0
       THEN Some(MathRound(SumKey(valid, key), Len(valid)))
       ELSE Null

\* valid.length > 0 ? Math.round((sum / valid.length) * 10) / 10 : null,
\* the values in hundredths and the result in tenths
AvgTenth(arr, key) ==
    LET valid == Valid(arr, key)
    IN IF Len(valid) > 0
       THEN Some(MathRound(SumKey(valid, key), 10 * Len(valid)))
       ELSE Null

\* the recovery score from which a day counts as a good day
GoodRecovery == 70

\* calcStats counting only the days strictly above the cutoff
calcStatsStrictlyAbove(arr) ==
    [avgRecovery |-> AvgInt(arr, "recoveryScore"),
     avgStrain |-> AvgTenth(arr, "strain"),
     avgSleep |-> AvgTenth(arr, "sleepHours"),
     avgHrv |-> AvgInt(arr, "hrv"),
     avgRhr |-> AvgInt(arr, "rhr"),
     daysAbove70Recovery |->
         CountIf(Valid(arr, "recoveryScore"),
                 LAMBDA r : Val(r.recoveryScore) > GoodRecovery)]

calcStats(arr) ==
    [avgRecovery |-> AvgInt(arr, "recoveryScore"),
     avgStrain |-> AvgTenth(arr, "strain"),
     avgSleep |-> AvgTenth(arr, "sleepHours"),
     avgHrv |-> AvgInt(arr, "hrv"),
     avgRhr |-> AvgInt(arr, "rhr"),
     daysAbove70Recovery |->
         CountIf(Valid(arr, "recoveryScore"),
                 LAMBDA r : Val(r.recoveryScore) >= GoodRecovery)]

\* calcChange cutting the percentage off instead of rounding it
calcChangeFloor(current, previous) ==
    IF current = Null \/ previous = Null THEN Null
    ELSE IF Val(previous) = 0 THEN Null
    ELSE Some(((Val(current) - Val(previous)) * 100) \div Val(previous))

\* null if an operand is null or previous is 0, else the rounded percentage
calcChange(current, previous) ==
    IF current = Null \/ previous = Null THEN Null
    ELSE IF Val(previous) = 0 THEN Null
    ELSE Some(MathRound((Val(current) - Val(previous)) * 100, Val(previous)))

\* data.slice(0, 7) and data.slice(7, 14)
WeekLen == 7
\* lastWeekData taking the list as newest first
lastWeekDataNewest(data) == Slice(data, WeekLen, 2 * WeekLen)
lastWeekData(data) == Slice(data, 0, WeekLen)
thisWeekData(data) == Slice(data, WeekLen, 2 * WeekLen)

changesOf(thisWeek, lastWeek) ==
    [recoveryChange |-> calcChange(thisWeek.avgRecovery, lastWeek.avgRecovery),
     strainChange |-> calcChange(thisWeek.avgStrain, lastWeek.avgStrain),
     sleepChange |-> calcChange(thisWeek.avgSleep, lastWeek.avgSleep),
     hrvChange |-> calcChange(thisWeek.avgHrv, lastWeek.avgHrv),
     rhrChange |-> calcChange(thisWeek.avgRhr, lastWeek.avgRhr)]

\* ratio = avgStrain / (avgRecovery / 10), avgStrain in tenths: the ratio is
\* strain10 / recovery, Infinity for recovery 0 and strain > 0, NaN for 0 / 0
\* RatioAbove2 counting a ratio of exactly 2
RatioAtLeast2(strain10, recovery) ==
    IF recovery = 0 THEN strain10 > 0 ELSE strain10 >= 2 * recovery
RatioAbove2(strain10, recovery) ==
    IF recovery = 0 THEN strain10 > 0 ELSE strain10 > 2 * recovery
RatioBelow1(strain10, recovery) ==
    IF recovery = 0 THEN FALSE ELSE strain10 < recovery

strainRecoveryBalance(thisWeek) ==
    IF thisWeek.avgStrain # Null /\ thisWeek.avgRecovery # Null
    THEN IF RatioAbove2(Val(thisWeek.avgStrain), Val(thisWeek.avgRecovery))
         THEN "overreaching"
         ELSE IF RatioBelow1(Val(thisWeek.avgStrain), Val(thisWeek.avgRecovery))
         THEN "undertrained"
         ELSE "balanced"
    ELSE "balanced"

Abs(n) == IF n < 0 THEN 0 - n ELSE n
\* Math.abs of a nullable number: Math.abs(null) is 0
MathAbs(o) == IF o = Null THEN Some(0) ELSE Some(Abs(Val(o)))

\* an insight or a recommendation: the rule that wrote it and the number in it
Line(rule, n) == [rule |-> rule, n |-> n]
Pair(ins, rec) == [insights |-> ins, recommendations |-> rec]
NoLines == Pair(<<>>, <<>>)

RecoveryRule(thisWeek, lastWeek, changes) ==
    IF thisWeek.avgRecovery # Null /\ lastWeek.avgRecovery # Null
    THEN IF Val(thisWeek.avgRecovery) > Val(lastWeek.avgRecovery)
         THEN Pair(<<Line("Recovery improved", changes.recoveryChange)>>, <<>>)
         ELSE IF Val(thisWeek.avgRecovery) < Val(lastWeek.avgRecovery)
         THEN Pair(<<Line("Recovery declined", MathAbs(changes.recoveryChange))>>,
                   <<Line("Consider prioritizing sleep and reducing strain", Null)>>)
         ELSE NoLines
    ELSE NoLines

HrvRule(thisWeek, lastWeek, changes) ==
    IF thisWeek.avgHrv # Null /\ lastWeek.avgHrv # Null
    THEN IF changes.hrvChange # Null /\ Val(changes.hrvChange) > 10
         THEN Pair(<<Line("HRV increased", changes.hrvChange)>>, <<>>)
         ELSE IF changes.hrvChange # Null /\ Val(changes.hrvChange) < 0 - 10
         THEN Pair(<<Line("HRV decreased", MathAbs(changes.hrvChange))>>,
                   <<Line("Monitor for signs of overtraining, consider extra rest", Null)>>)
         ELSE NoLines
    ELSE NoLines

RhrRule(thisWeek, lastWeek, changes) ==
    IF thisWeek.avgRhr # Null /\ lastWeek.avgRhr # Null
    THEN IF changes.rhrChange # Null /\ Val(changes.rhrChange) < 0 - 5
         THEN Pair(<<Line("Resting heart rate dropped", MathAbs(changes.rhrChange))>>, <<>>)
         ELSE IF changes.rhrChange # Null /\ Val(changes.rhrChange) > 5
         THEN Pair(<<Line("Resting heart rate increased", changes.rhrChange)>>,
                   <<Line("Check hydration, sleep quality, and stress levels", Null)>>)
         ELSE NoLines
    ELSE NoLines

\* avgSleep is in tenths: 7 hours is 70
SleepRule(thisWeek) ==
    IF thisWeek.avgSleep # Null
    THEN IF Val(thisWeek.avgSleep) < 7 * 10
         THEN Pair(<<Line("Average sleep this week", thisWeek.avgSleep)>>,
                   <<Line("Aim for at least 7 hours of sleep per night", Null)>>)
         ELSE IF Val(thisWeek.avgSleep) >= 8 * 10
         THEN Pair(<<Line("Great sleep average", thisWeek.avgSleep)>>, <<>>)
         ELSE NoLines
    ELSE NoLines

\* GoodDaysRule giving its advice for a weak week without the insight
GoodDaysRuleAdviceOnly(thisWeek) ==
    IF thisWeek.daysAbove70Recovery >= 5
    THEN Pair(<<Line("Strong week", Some(thisWeek.daysAbove70Recovery))>>,
              <<Line("Good time to push harder in workouts", Null)>>)
    ELSE IF thisWeek.daysAbove70Recovery <= 2
    THEN Pair(<<>>, <<Line("Focus on recovery - lighter workouts, more sleep", Null)>>)
    ELSE NoLines

GoodDaysRule(thisWeek) ==
    IF thisWeek.daysAbove70Recovery >= 5
    THEN Pair(<<Line("Strong week", Some(thisWeek.daysAbove70Recovery))>>,
              <<Line("Good time to push harder in workouts", Null)>>)
    ELSE IF thisWeek.daysAbove70Recovery <= 2
    THEN Pair(<<Line("Only days with good recovery", Some(thisWeek.daysAbove70Recovery))>>,
              <<Line("Focus on recovery - lighter workouts, more sleep", Null)>>)
    ELSE NoLines

BalanceRule(balance) ==
    IF balance = "overreaching"
    THEN Pair(<<Line("Strain/recovery balance indicates overreaching", Null)>>,
              <<Line("Take a rest day or do active recovery", Null)>>)
    ELSE IF balance = "undertrained"
    THEN Pair(<<Line("You have capacity for more training load", Null)>>,
              <<Line("Consider increasing workout intensity or duration", Null)>>)
    ELSE NoLines

\* the rules chained by else: a later rule is skipped once an earlier one fired
TrendsRulesElseIf(thisWeek, lastWeek, changes, balance) ==
    LET r1 == RecoveryRule(thisWeek, lastWeek, changes)
        r2 == IF r1 # NoLines THEN NoLines ELSE HrvRule(thisWeek, lastWeek, changes)
        r3 == IF r1 # NoLines \/ r2 # NoLines THEN NoLines
              ELSE RhrRule(thisWeek, lastWeek, changes)
        r4 == IF r1 # NoLines \/ r2 # NoLines \/ r3 # NoLines THEN NoLines
              ELSE SleepRule(thisWeek)
        r5 == IF r1 # NoLines \/ r2 # NoLines \/ r3 # NoLines \/ r4 # NoLines
              THEN NoLines ELSE GoodDaysRule(thisWeek)
        r6 == IF r1 # NoLines \/ r2 # NoLines \/ r3 # NoLines \/ r4 # NoLines
                 \/ r5 # NoLines
              THEN NoLines ELSE BalanceRule(balance)
    IN <<r1, r2, r3, r4, r5, r6>>

\* the rules in the order the handler runs them
TrendsRules(thisWeek, lastWeek, changes, balance) ==
    <<RecoveryRule(thisWeek, lastWeek, changes),
      HrvRule(thisWeek, lastWeek, changes),
      RhrRule(thisWeek, lastWeek, changes),
      SleepRule(thisWeek),
      GoodDaysRule(thisWeek),
      BalanceRule(balance)>>

RECURSIVE ConcatInsights(_)
ConcatInsights(rules) ==
    IF rules = <<>> THEN <<>>
    ELSE Head(rules).insights \o ConcatInsights(Tail(rules))
RECURSIVE ConcatRecommendations(_)
ConcatRecommendations(rules) ==
    IF rules = <<>> THEN <<>>
    ELSE Head(rules).recommendations \o ConcatRecommendations(Tail(rules))

\* the structured output of whoop_get_trends
TrendsOutput(data) ==
    LET thisWeek == calcStats(thisWeekData(data))
        lastWeek == calcStats(lastWeekData(data))
        changes == changesOf(thisWeek, lastWeek)
        balance == strainRecoveryBalance(thisWeek)
        rules == TrendsRules(thisWeek, lastWeek, changes, balance)
    IN [weekOverWeek |-> [thisWeek |-> thisWeek, lastWeek |-> lastWeek,
                          changes |-> changes],
        strainRecoveryBalance |-> balance,
        insights |-> ConcatInsights(rules),
        recommendations |-> ConcatRecommendations(rules)]

(***************************************************************************)
(* Aggregation: whoop_get_monthly_summary.                                 *)
(***************************************************************************)
\* Math.round(sum * 10) / 10 of values in hundredths, in tenths
TotalTenth(arr, key) ==
    LET valid == Valid(arr, key)
    IN IF Len(valid) > 0 THEN Some(MathRound(SumKey(valid, key), 10)) ELSE Null

\* Math.round(sum) of integers
TotalInt(arr, key) ==
    LET valid == Valid(arr, key)
    IN IF Len(valid) > 0 THEN Some(SumKey(valid, key)) ELSE Null

monthlyTotals(data) ==
    [totalStrain |-> TotalTenth(data, "strain"),
     totalCalories |-> TotalInt(data, "calories"),
     totalSleepHours |-> TotalTenth(data, "sleepHours")]

monthlyAverages(data) ==
    [recovery |-> AvgInt(data, "recoveryScore"),
     strain |-> AvgTenth(data, "strain"),
     sleepHours |-> AvgTenth(data, "sleepHours"),
     hrv |-> AvgInt(data, "hrv"),
     rhr |-> AvgInt(data, "rhr")]

\* Greater letting a later equal value win
GreaterOrEqual(x, y) == x >= y
\* d[key] > best[key]
Greater(x, y) == x > y
\* d[key] < worst[key]
Less(x, y) == x < y

\* valid.reduce((best, d) => !best || Better(d[key], best[key]) ? d : best, null)
ReduceBest(valid, key, Better(_, _)) ==
    LET best[k \in 0..Len(valid)] ==
            IF k = 0 THEN Null
            ELSE LET before == best[k - 1]
                 IN IF before = Null
                       \/ Better(Val(valid[k][key]), Val(Val(before)[key]))
                    THEN Some(valid[k])
                    ELSE before
    IN best[Len(valid)]

bestRecovery(data) == ReduceBest(Valid(data, "recoveryScore"), "recoveryScore", Greater)
worstRecovery(data) == ReduceBest(Valid(data, "recoveryScore"), "recoveryScore", Less)
highestStrain(data) == ReduceBest(Valid(data, "strain"), "strain", Greater)
bestSleep(data) == ReduceBest(Valid(data, "sleepHours"), "sleepHours", Greater)

\* a highlight: the date and the value of the chosen record, or null
Highlight(chosen, key) ==
    IF chosen # Null
    THEN Some([date |-> Val(chosen).date, value |-> Val(Val(chosen)[key])])
    ELSE Null

monthlyHighlights(data) ==
    [bestRecoveryDay |-> Highlight(bestRecovery(data), "recoveryScore"),
     worstRecoveryDay |-> Highlight(worstRecovery(data), "recoveryScore"),
     highestStrainDay |-> Highlight(highestStrain(data), "strain"),
     \* hours: Math.round(bestSleep.sleepHours * 10) / 10, in tenths
     bestSleepDay |->
         IF bestSleep(data) # Null
         THEN Some([date |-> Val(bestSleep(data)).date,
                    value |-> MathRound(Val(Val(bestSleep(data)).sleepHours), 10)])
         ELSE Null]

GreenRecovery == 67
YellowRecovery == 34

\* the distribution with 67 counted as yellow
monthlyDistributionAbove67(data) ==
    LET validRecovery == Valid(data, "recoveryScore")
    IN [greenRecoveryDays |->
            CountIf(validRecovery, LAMBDA r : Val(r.recoveryScore) > GreenRecovery),
        yellowRecoveryDays |->
            CountIf(validRecovery, LAMBDA r : Val(r.recoveryScore) >= YellowRecovery
                                              /\ Val(r.recoveryScore) <= GreenRecovery),
        redRecoveryDays |->
            CountIf(validRecovery, LAMBDA r : Val(r.recoveryScore) < YellowRecovery)]

monthlyDistribution(data) ==
    LET validRecovery == Valid(data, "recoveryScore")
    IN [greenRecoveryDays |->
            CountIf(validRecovery, LAMBDA r : Val(r.recoveryScore) >= GreenRecovery),
        yellowRecoveryDays |->
            CountIf(validRecovery, LAMBDA r : Val(r.recoveryScore) >= YellowRecovery
                                              /\ Val(r.recoveryScore) < GreenRecovery),
        redRecoveryDays |->
            CountIf(validRecovery, LAMBDA r : Val(r.recoveryScore) < YellowRecovery)]

monthlyInsights(totals, averages, distribution) ==
    (IF averages.recovery # Null /\ Val(averages.recovery) >= 70
     THEN <<Line("Excellent month", averages.recovery)>>
     ELSE IF averages.recovery # Null /\ Val(averages.recovery) < 50
     THEN <<Line("Challenging month", averages.recovery)>>
     ELSE <<>>)
    \o (IF distribution.greenRecoveryDays > 20
        THEN <<Line("Strong consistency", Some(distribution.greenRecoveryDays))>>
        ELSE <<>>)
    \o (IF distribution.redRecoveryDays > 5
        THEN <<Line("red recovery days", Some(distribution.redRecoveryDays))>>
        ELSE <<>>)
    \o (IF averages.sleepHours # Null /\ Val(averages.sleepHours) < 7 * 10
        THEN <<Line("Sleep debt accumulating", averages.sleepHours)>>
        ELSE <<>>)
    \o (IF totals.totalStrain # Null /\ Val(totals.totalStrain) > 400 * 10
        THEN <<Line("High training volume", totals.totalStrain)>>
        ELSE <<>>)

\* the structured output of whoop_get_monthly_summary
MonthlyOutput(data, startDate, endDate) ==
    [period |-> [start |-> startDate, end |-> endDate, daysWithData |-> Len(data)],
     totals |-> monthlyTotals(data),
     averages |-> monthlyAverages(data),
     highlights |-> monthlyHighlights(data),
     distribution |-> monthlyDistribution(data),
     insights |-> monthlyInsights(monthlyTotals(data), monthlyAverages(data),
                                  monthlyDistribution(data))]

(***************************************************************************)
(* Aggregation: whoop_get_history.                                         *)
(***************************************************************************)
historyAverages(data) ==
    [recoveryScore |-> AvgInt(data, "recoveryScore"),
     strain |-> AvgTenth(data, "strain"),
     sleepHours |-> AvgTenth(data, "sleepHours"),
     hrv |-> Null,
     restingHeartRate |-> Null]

\* avgByDay: the weekdays with a count, each with Math.round(sum / count)
avgByDay(totals) ==
    [w \in {x \in WeekdayNames : totals[x].count > 0} |->
        MathRound(totals[w].sum, totals[w].count)]

\* bestDay / worstDay after the weekdays up to the k-th, Sunday first
WeekdayScan(totals) ==
    LET scan[k \in 0..Len(weekdays)] ==
            IF k = 0
            THEN [bestDay |-> Null, worstDay |-> Null, bestAvg |-> 0 - 1, worstAvg |-> 101]
            ELSE LET before == scan[k - 1]
                     day == weekdays[k]
                 IN IF totals[day].count > 0
                    THEN LET avg == MathRound(totals[day].sum, totals[day].count)
                         IN [bestDay |-> IF avg > before.bestAvg THEN Some(day)
                                         ELSE before.bestDay,
                             bestAvg |-> IF avg > before.bestAvg THEN avg
                                         ELSE before.bestAvg,
                             worstDay |-> IF avg < before.worstAvg THEN Some(day)
                                          ELSE before.worstDay,
                             worstAvg |-> IF avg < before.worstAvg THEN avg
                                          ELSE before.worstAvg]
                    ELSE before
    IN scan[Len(weekdays)]

\* valid.length > 0 ? sum / valid.length : null, kept as the fraction num / den
calcAvg(arr, key) ==
    LET valid == Valid(arr, key)
    IN IF Len(valid) > 0
       THEN Some([num |-> SumKey(valid, key), den |-> Len(valid)])
       ELSE Null

\* diff = ((second - first) / first) * 100 against 5 and -5; with
\* first = a / b and second = c / e (b, e > 0) the quotient is
\* (c * b - a * e) / (e * a), and for a = 0 it is Infinity, NaN or -Infinity
DiffAbove5(first, second) ==
    LET n == second.num * first.den - first.num * second.den
        dd == second.den * first.num
    IN IF dd = 0 THEN n > 0
       ELSE IF dd > 0 THEN 100 * n > 5 * dd
       ELSE 100 * n < 5 * dd
DiffBelowMinus5(first, second) ==
    LET n == second.num * first.den - first.num * second.den
        dd == second.den * first.num
    IN IF dd = 0 THEN n < 0
       ELSE IF dd > 0 THEN 100 * n < (0 - 5) * dd
       ELSE 100 * n > (0 - 5) * dd

\* getTrend counting a change of exactly 5% as a trend
getTrendInclusive(first, second) ==
    IF first = Null \/ second = Null THEN "insufficient data"
    ELSE LET n == Val(second).num * Val(first).den - Val(first).num * Val(second).den
             dd == Val(second).den * Val(first).num
         IN IF DiffAbove5(Val(first), Val(second)) \/ (dd # 0 /\ 100 * n = 5 * dd)
            THEN "improving"
            ELSE IF DiffBelowMinus5(Val(first), Val(second)) THEN "declining"
            ELSE "stable"

getTrend(first, second) ==
    IF first = Null \/ second = Null THEN "insufficient data"
    ELSE IF DiffAbove5(Val(first), Val(second)) THEN "improving"
    ELSE IF DiffBelowMinus5(Val(first), Val(second)) THEN "declining"
    ELSE "stable"

\* Math.floor(dailyData.length / 2)
midpoint(data) == Len(data) \div 2
firstHalf(data) == Slice(data, 0, midpoint(data))
secondHalf(data) == Slice(data, midpoint(data), Len(data))

historyTrends(data) ==
    [recoveryTrend |-> getTrend(calcAvg(firstHalf(data), "recoveryScore"),
                                calcAvg(secondHalf(data), "recoveryScore")),
     strainTrend |-> getTrend(calcAvg(firstHalf(data), "strain"),
                              calcAvg(secondHalf(data), "strain")),
     sleepTrend |-> getTrend(calcAvg(firstHalf(data), "sleepHours"),
                             calcAvg(secondHalf(data), "sleepHours"))]

\* the structured output of whoop_get_history
HistoryOutput(data, totals, n, startDate, endDate) ==
    [summary |-> [totalDays |-> n,
                  daysWithData |-> Len(Valid(data, "recoveryScore")),
                  dateRange |-> [start |-> startDate, end |-> endDate]],
     averages |-> historyAverages(data),
     dailyData |-> data,
     weekdayPatterns |-> [bestRecoveryDay |-> WeekdayScan(totals).bestDay,
                          worstRecoveryDay |-> WeekdayScan(totals).worstDay,
                          avgByDay |-> avgByDay(totals)],
     trends |-> historyTrends(data)]

(***************************************************************************)
(* The single-date tools.  Their extraction uses plain member access where *)
(* the multi-day tools use optional chaining: a missing node throws.       *)
(***************************************************************************)
\* data.sections.find((s) => s.items.some(...)) throws at the first section
\* without items that it visits
FindThrows(sections, type) ==
    \E k \in 1..Len(sections) :
        /\ sections[k].items = Null
        /\ \A j \in 1..(k - 1) : ~SomeItem(sections[j], type)

\* the extractor taking the last matching item of the last matching section
ContentOfLast(sections, type) ==
    LET hits == {k \in 1..Len(sections) : SomeItem(sections[k], type)}
    IN IF hits = {} THEN Null
       ELSE LET si == CHOOSE k \in hits : \A j \in hits : j <= k
                items == Val(sections[si].items)
                ih == {i \in 1..Len(items) : items[i].type = type}
                ii == CHOOSE i \in ih : \A j \in ih : j <= i
            IN items[ii].content

\* section?.items.find((i) => i.type === type)?.content
ContentOf(sections, type) ==
    LET si == FindFirst(sections, LAMBDA s : SomeItem(s, type))
    IN IF si = 0 THEN Null
       ELSE LET items == Val(sections[si].items)
                ii == FindFirst(items, LAMBDA i : i.type = type)
            IN items[ii].content

\* whether whoop_get_recovery's extraction throws on the payload
RecoveryThrows(data) ==
    \/ data.sections = Null
    \/ FindThrows(Val(data.sections), "SCORE_GAUGE")
    \/ FindThrows(Val(data.sections), "CONTRIBUTORS_TILE")
    \/ LET tile == ContentOf(Val(data.sections), "CONTRIBUTORS_TILE")
       IN tile # Null /\ Val(tile).metrics = Null
    \/ data.header = Null

\* data.sections.filter((s) => s.items.some(...)) visits every section
StrainThrows(data) ==
    \/ RecoveryThrows(data)
    \/ \E k \in 1..Len(Val(data.sections)) :
          \/ Val(data.sections)[k].items = Null
          \* item.content.title of an ACTIVITY item
          \/ \E i \in 1..Len(Val(Val(data.sections)[k].items)) :
                /\ Val(Val(data.sections)[k].items)[i].type = "ACTIVITY"
                /\ Val(Val(data.sections)[k].items)[i].content = Null

\* contributorsTile?.metrics.map(...) || []
Contributors(tile) ==
    IF tile = Null THEN <<>>
    ELSE [k \in 1..Len(Val(Val(tile).metrics)) |->
             [id |-> Val(Val(tile).metrics)[k].id,
              value |-> Some(Val(Val(tile).metrics)[k].status),
              baseline |-> Val(Val(tile).metrics)[k].status_subtitle]]

\* contributorsTile?.footer?.items?.find((i) => i.type === "WHOOP_COACH_VOW")
\*     ?.content?.vow || null
coachInsight(tile) ==
    IF tile = Null \/ Val(tile).footer = Null \/ Val(Val(tile).footer).items = Null
    THEN Null
    ELSE LET items == Val(Val(Val(tile).footer).items)
             hits == {k \in 1..Len(items) : items[k].type = "WHOOP_COACH_VOW"}
             ii == IF hits = {} THEN 0 ELSE CHOOSE k \in hits : \A j \in hits : k <= j
         IN IF ii = 0 \/ items[ii].content = Null
               \/ Val(items[ii].content).vow = ""
            THEN Null
            ELSE Some(Val(items[ii].content).vow)

\* x || null of a nullable number: 0 is null too
OrNull(x) == IF x = Null \/ Val(x) = 0 THEN Null ELSE x

\* the part of the structured output that whoop_get_recovery and
\* whoop_get_strain share
DeepDiveOutput(data) ==
    LET scoreGauge == ContentOf(Val(data.sections), "SCORE_GAUGE")
        tile == ContentOf(Val(data.sections), "CONTRIBUTORS_TILE")
    IN [title |-> Val(data.header).title,
        score |-> IF scoreGauge = Null \/ Val(scoreGauge).score_display = ""
                  THEN "N/A" ELSE Val(scoreGauge).score_display,
        percentage |-> IF scoreGauge = Null
                          \/ Val(scoreGauge).gauge_fill_percentage = Null
                       THEN 0 ELSE Val(Val(scoreGauge).gauge_fill_percentage),
        contributors |-> Contributors(tile),
        coachInsight |-> coachInsight(tile)]

\* the structured output of whoop_get_recovery
RecoveryOutput(data) ==
    LET scoreGauge == ContentOf(Val(data.sections), "SCORE_GAUGE")
    IN DeepDiveOutput(data) @@
       [style |-> IF scoreGauge = Null THEN "UNKNOWN"
                  ELSE Val(scoreGauge).progress_fill_style]

\* the titles of the ACTIVITY items of every section, in document order
RECURSIVE Activities(_)
Activities(sections) ==
    IF sections = <<>> THEN <<>>
    ELSE LET items == Val(Head(sections).items)
             own == SelectSeq(items, LAMBDA i : i.type = "ACTIVITY")
         IN [k \in 1..Len(own) |-> Val(own[k].content).title]
            \o Activities(Tail(sections))

\* the structured output of whoop_get_strain
StrainOutput(data) ==
    LET scoreGauge == ContentOf(Val(data.sections), "SCORE_GAUGE")
    IN DeepDiveOutput(data) @@
       [target |-> IF scoreGauge = Null THEN Null
                   ELSE OrNull(Val(scoreGauge).score_target),
        lowerOptimal |-> IF scoreGauge = Null THEN Null
                         ELSE OrNull(Val(scoreGauge).lower_optimal_percentage),
        higherOptimal |-> IF scoreGauge = Null THEN Null
                          ELSE OrNull(Val(scoreGauge).higher_optimal_percentage),
        activities |-> Activities(Val(data.sections))]

\* whether whoop_get_overview's extraction throws on the payload
OverviewThrows(data) ==
    \/ data.pillars = Null
    \/ \E k \in 1..Len(Val(data.pillars)) :
          LET p == Val(data.pillars)[k]
          IN /\ p.type = "OVERVIEW"
             /\ \A j \in 1..(k - 1) : Val(data.pillars)[j].type # "OVERVIEW"
             /\ \/ p.sections = Null
                \/ \E m \in 1..Len(Val(p.sections)) :
                      \/ Val(p.sections)[m].items = Null
                      \/ \E i \in 1..Len(Val(Val(p.sections)[m].items)) :
                            LET item == Val(Val(p.sections)[m].items)[i]
                            IN item.type \in {"ITEMS_CARD", "KEY_STATISTIC"}
                               /\ item.content = Null
    \/ data.metadata = Null
    \/ Val(data.metadata).cycle_metadata = Null
    \/ Val(data.metadata).whoop_live_metadata = Null
    \/ Val(data.metadata).journal_metadata = Null
    \/ data.header = Null
    \/ Val(data.header).gauges = Null
    \* output.liveMetrics.dayStrain.toFixed(1) in the text lines
    \/ Val(Val(data.metadata).whoop_live_metadata).day_strain = Null

\* the structured output of whoop_get_overview
\* the KEY_STATISTIC items of the sections, in document order
RECURSIVE StatisticsOf(_)
StatisticsOf(sections) ==
    IF sections = <<>> THEN <<>>
    ELSE LET own == SelectSeq(Val(Head(sections).items),
                              LAMBDA i : i.type = "KEY_STATISTIC")
         IN [k \in 1..Len(own) |->
                [title |-> Val(own[k].content).title,
                 thirtyDayAverage |-> Val(own[k].content).thirty_day]]
            \o StatisticsOf(Tail(sections))

\* statistics: those of the first OVERVIEW pillar, none without such a pillar
statistics(data) ==
    LET pi == FindFirst(Val(data.pillars), LAMBDA p : p.type = "OVERVIEW")
    IN IF pi = 0 THEN <<>> ELSE StatisticsOf(Val(Val(data.pillars)[pi].sections))

OverviewOutput(data) ==
    LET lv == Val(Val(data.metadata).whoop_live_metadata)
    IN [cycleInfo |-> Val(Val(data.metadata).cycle_metadata),
        liveMetrics |-> [recoveryScore |-> lv.recovery_score,
                         dayStrain |-> lv.day_strain,
                         sleepHours |-> lv.ms_of_sleep,
                         calories |-> lv.calories],
        gauges |-> [k \in 1..Len(Val(Val(data.header).gauges)) |->
                       [title |-> Val(Val(data.header).gauges)[k].title,
                        scoreSuffix |-> Val(Val(data.header).gauges)[k].suffix]],
        journal |-> Val(Val(data.metadata).journal_metadata),
        statistics |-> statistics(data)]

\* payloads the backend may return to a single-date tool
HomeSamples ==
    { HomeWith(Some(Live(Some(64), Some(1210), Some(745), Some(2150)))),
      HomeWith(Some(Live(Null, Null, Null, Null))),
      HomeWith(Null),
      HomeNoMeta,
      Home(Some(Meta(Some(Live(Some(64), Some(1210), Some(745), Some(2150))))),
           Null, Some(Gauges)),
      Home(Some(Meta(Some(Live(Some(64), Some(1210), Some(745), Some(2150))))),
           Some(<<>>), Null) }
DeepSamples ==
    { DeepWith("45", "60"), DeepWith("--", "0"), DeepNoSections, DeepNoMetrics,
      Deep(Some(<<>>), Some([title |-> "TODAY"])),
      Deep(Some(<<Section(Some(<<Tile(Some(<<>>))>>))>>), Null),
      \* gauges and tiles in several sections, an activity before them
      Deep(Some(<<Section(Some(<<Activity("Run"), Gauge("71")>>)),
                 Section(Some(<<Gauge("12"),
                                Tile(Some(<<Metric("CONTRIBUTORS_TILE_HRV", "55")>>))>>)),
                 Section(Some(<<TileFooter(Some(<<Metric("CONTRIBUTORS_TILE_RHR", "52")>>),
                                           Vow("Rest today"))>>))>>),
           Some([title |-> "TODAY"])),
      \* two gauges and two tiles in one section, the first tile with a vow
      Deep(Some(<<Section(Some(<<GaugeWith("33", Some(50), Some(60), Some(40), Some(80)),
                                GaugeWith("44", Null, Null, Null, Null),
                                TileFooter(Some(<<Metric("CONTRIBUTORS_TILE_SLEEP", "85")>>),
                                           Vow("Push harder")),
                                Tile(Some(<<>>))>>))>>),
           Some([title |-> "TODAY"])),
      \* a gauge with an empty score and a zero fill, a tile with an empty vow
      Deep(Some(<<Section(Some(<<GaugeWith("", Some(0), Some(0), Some(40), Null),
                                TileFooter(Some(<<>>), Vow(""))>>))>>),
           Some([title |-> "TODAY"])),
      \* items, none of them a gauge or a tile
      Deep(Some(<<Section(Some(<<Activity("Walk")>>)), Section(Some(<<>>))>>),
           Some([title |-> "TODAY"])) }

(***************************************************************************)
(* Tool results.                                                           *)
(***************************************************************************)
(***************************************************************************)
(* The text rendering.  The text is the sequence of the places where a     *)
(* nullable field of the output is printed: the field, its position in a   *)
(* list (0 outside lists) and what is printed there, "N/A", "" or the      *)
(* value.  A field with no place in the sequence is not printed.           *)
(***************************************************************************)
Slot(field, at, shown) == [field |-> field, at |-> at, shown |-> shown]
\* ${x}: a null printed by the template literal itself
Interpolated(x) == IF x = Null THEN "null" ELSE "value"
\* ${x ?? "N/A"}, ${x != null ? ... : "N/A"}
OrNA(x) == IF x = Null THEN "N/A" ELSE "value"
\* ${x || ""}
OrEmpty(x) == IF x = Null THEN "" ELSE "value"

TrendsText(o) ==
    LET tw == o.weekOverWeek.thisWeek
        lw == o.weekOverWeek.lastWeek
        ch == o.weekOverWeek.changes
    IN << Slot("thisWeek.avgRecovery", 0, OrNA(tw.avgRecovery)),
          Slot("thisWeek.avgStrain", 0, OrNA(tw.avgStrain)),
          Slot("thisWeek.avgSleep", 0, OrNA(tw.avgSleep)),
          Slot("thisWeek.avgHrv", 0, OrNA(tw.avgHrv)),
          Slot("thisWeek.avgRhr", 0, OrNA(tw.avgRhr)),
          Slot("lastWeek.avgRecovery", 0, OrNA(lw.avgRecovery)),
          Slot("lastWeek.avgStrain", 0, OrNA(lw.avgStrain)),
          Slot("lastWeek.avgSleep", 0, OrNA(lw.avgSleep)),
          Slot("lastWeek.avgHrv", 0, OrNA(lw.avgHrv)),
          Slot("lastWeek.avgRhr", 0, OrNA(lw.avgRhr)),
          Slot("changes.recoveryChange", 0, OrNA(ch.recoveryChange)),
          Slot("changes.strainChange", 0, OrNA(ch.strainChange)),
          Slot("changes.sleepChange", 0, OrNA(ch.sleepChange)),
          Slot("changes.hrvChange", 0, OrNA(ch.hrvChange)),
          Slot("changes.rhrChange", 0, OrNA(ch.rhrChange)) >>

MonthlyText(o) ==
    << Slot("totals.totalStrain", 0, OrNA(o.totals.totalStrain)),
       Slot("totals.totalCalories", 0, OrNA(o.totals.totalCalories)),
       Slot("totals.totalSleepHours", 0, OrNA(o.totals.totalSleepHours)),
       Slot("averages.recovery", 0, OrNA(o.averages.recovery)),
       Slot("averages.strain", 0, OrNA(o.averages.strain)),
       Slot("averages.sleepHours", 0, OrNA(o.averages.sleepHours)),
       Slot("averages.hrv", 0, OrNA(o.averages.hrv)),
       Slot("averages.rhr", 0, OrNA(o.averages.rhr)),
       Slot("highlights.bestRecoveryDay", 0, OrNA(o.highlights.bestRecoveryDay)),
       Slot("highlights.worstRecoveryDay", 0, OrNA(o.highlights.worstRecoveryDay)),
       Slot("highlights.highestStrainDay", 0, OrNA(o.highlights.highestStrainDay)),
       Slot("highlights.bestSleepDay", 0, OrNA(o.highlights.bestSleepDay)) >>

\* averages.hrv, averages.restingHeartRate and dailyData have no line
HistoryText(o) ==
    << Slot("averages.recoveryScore", 0, OrNA(o.averages.recoveryScore)),
       Slot("averages.strain", 0, OrNA(o.averages.strain)),
       Slot("averages.sleepHours", 0, OrNA(o.averages.sleepHours)),
       Slot("weekdayPatterns.bestRecoveryDay", 0,
            OrNA(o.weekdayPatterns.bestRecoveryDay)),
       Slot("weekdayPatterns.worstRecoveryDay", 0,
            OrNA(o.weekdayPatterns.worstRecoveryDay)) >>

\* contributors.forEach: the Current and the Baseline line of each
RECURSIVE ContributorLines(_, _)
ContributorLines(contributors, k) ==
    IF k > Len(contributors) THEN <<>>
    ELSE << Slot("contributors.value", k, OrNA(contributors[k].value)),
            Slot("contributors.baseline", k, OrNA(contributors[k].baseline)) >>
         \o ContributorLines(contributors, k + 1)

\* if (output.coachInsight) lines.push(..., output.coachInsight, "")
CoachLines(o) ==
    IF o.coachInsight # Null THEN <<Slot("coachInsight", 0, "value")>> ELSE <<>>

RecoveryText(o) == ContributorLines(o.contributors, 1) \o CoachLines(o)

\* the Target line and the Optimal Range line are pushed under an if
StrainText(o) ==
    (IF o.target # Null THEN <<Slot("strainScore.target", 0, "value")>> ELSE <<>>)
    \o (IF o.lowerOptimal # Null /\ o.higherOptimal # Null
        THEN << Slot("strainScore.lowerOptimal", 0, "value"),
                Slot("strainScore.higherOptimal", 0, "value") >>
        ELSE <<>>)
    \o ContributorLines(o.contributors, 1)
    \o CoachLines(o)

OverviewText(o) ==
    [k \in 1..Len(o.gauges) |-> Slot("gauges.scoreSuffix", k, OrEmpty(o.gauges[k].scoreSuffix))]
    \o [k \in 1..Len(o.statistics) |->
           Slot("statistics.thirtyDayAverage", k, OrNA(o.statistics[k].thirtyDayAverage))]

\* { content: [{type: "text", text}], structuredContent: output }
Success(output, text) ==
    [content |-> text, isError |-> Null, structuredContent |-> Some(output)]
\* the text of an error result: `Error fetching ...: ${error.message}`
ErrorText == <<Slot("error message", 0, "value")>>

\* Failure carrying a partial structured output beside the error flag
FailureWithOutput ==
    [content |-> ErrorText, isError |-> Some(TRUE),
     structuredContent |-> Some([partial |-> TRUE])]

\* { content: [{type: "text", text: "Error ..."}], isError: true }
Failure == [content |-> ErrorText, isError |-> Some(TRUE),
            structuredContent |-> Null]

\* what a single-date tool returns once its fetch returned data
SingleResult(t, data) ==
    CASE t = "overview" ->
           IF OverviewThrows(data) THEN Failure
           ELSE Success(OverviewOutput(data), OverviewText(OverviewOutput(data)))
      [] t = "recovery" ->
           IF RecoveryThrows(data) THEN Failure
           ELSE Success(RecoveryOutput(data), RecoveryText(RecoveryOutput(data)))
      [] OTHER ->
           IF StrainThrows(data) THEN Failure
           ELSE Success(StrainOutput(data), StrainText(StrainOutput(data)))

\* what a multi-day tool returns after its loop
MultiResult(t, data, totals, n, endDate) ==
    CASE t = "history" ->
           LET output == HistoryOutput(data, totals, n, StartOf(t, n, endDate), endDate)
           IN Success(output, HistoryText(output))
      [] t = "trends" ->
           LET output == TrendsOutput(data) IN Success(output, TrendsText(output))
      [] OTHER ->
           LET output == MonthlyOutput(data, StartOf(t, n, endDate), endDate)
           IN Success(output, MonthlyText(output))

\* the Data Fetcher method a single-date tool awaits
ApiOf(t) ==
    CASE t = "overview" -> "getHomeData"
      [] t = "recovery" -> "getRecoveryDeepDive"
      [] OTHER -> "getStrainDeepDive"

\* a settled call: gap tells that getHomeData returned a payload without
\* whoop_live_metadata, data is the payload returned (none when it threw)
Call(api, date, threw) ==
    [api |-> api, date |-> date, threw |-> threw, gap |-> FALSE, data |-> Null]
\* a call of the Data Fetcher whose promise is pending
Started(api, date) == [api |-> api, date |-> date]

(***************************************************************************)
(* One tool invocation.                                                    *)
(***************************************************************************)
\* the number of days the loop of a tool walks
WindowOf(t, n) ==
    CASE t = "trends" -> TrendsFirstOffset + 1
      [] t = "monthly" -> MonthlyFirstOffset + 1
      [] t = "history" -> n
      [] OTHER -> 1

Init ==
    \E t \in Tools, s \in Series, n \in (1..MaxDays) \cup {MaxHistoryDays}, z \in Zones :
        /\ n <= MaxHistoryDays
        /\ t # "history" => n = 1
        /\ t \notin MultiDay => s = "flat"
        \* a short whoop_get_history never reads its series; it alone is
        \* tried in both zones
        /\ (t = "history" /\ n <= MaxDays) => s = "flat"
        /\ ~(t = "history" /\ n <= MaxDays) => z = 0
        /\ zone = z
        /\ tool = t
        /\ series = s
        /\ days = WindowOf(t, n)
        /\ end = EndDay
        /\ pc = IF t \in MultiDay THEN "home" ELSE "fetch"
        /\ d = IF t \in MultiDay THEN StartOf(t, n, EndDay) ELSE EndDay
        /\ dailyData = <<>>
        /\ live = Null
        /\ weekdayTotals = ZeroTotals
        /\ result = Null
        /\ fetchLog = <<>>
        /\ inflight = {Started(IF t \in MultiDay THEN "getHomeData" ELSE ApiOf(t),
                                IF t \in MultiDay THEN StartOf(t, n, EndDay) ELSE EndDay)}
        /\ cur = Null
        /\ prev = Null
        /\ out = Null
        /\ other = Null

\* await whoopClient.getHomeData(dateStr) returns in the day loop
HomeReturns ==
    /\ pc = "home"
    /\ \E s \in DayOutcomes(tool, series, d, end) :
          /\ ~s.home.throws
          /\ LET lv == LiveOf(Val(s.home.data))
             IN IF tool = "history"
                THEN /\ dailyData' = IF lv # Null
                                     THEN Append(dailyData, HistoryRecord(d, Val(lv)))
                                     ELSE dailyData
                     /\ weekdayTotals' = IF lv # Null
                                         THEN TrackWeekday(weekdayTotals, d, Val(lv))
                                         ELSE weekdayTotals
                     /\ pc' = "pause"
                     /\ live' = live
                     /\ inflight' = inflight \ {Started("getHomeData", d)}
                ELSE /\ live' = lv
                     /\ pc' = "deep"
                     /\ inflight' = (inflight \ {Started("getHomeData", d)})
                                       \cup {Started("getRecoveryDeepDive", d)}
                     /\ UNCHANGED <<dailyData, weekdayTotals>>
          /\ fetchLog' = Append(fetchLog,
                 [Call("getHomeData", d, FALSE) EXCEPT
                     !.gap = (LiveOf(Val(s.home.data)) = Null),
                     !.data = s.home.data])
    /\ UNCHANGED <<tool, days, end, series, d, result, cur, prev, out, other, zone>>

\* HomeThrows without the day's catch: the throw reaches the handler's catch
HomeThrowsUncaught ==
    /\ pc = "home"
    /\ \E s \in DayOutcomes(tool, series, d, end) : s.home.throws
    /\ result' = Some(Failure)
    /\ pc' = "done"
    /\ fetchLog' = Append(fetchLog, Call("getHomeData", d, TRUE))
    /\ inflight' = inflight \ {Started("getHomeData", d)}
    /\ UNCHANGED <<tool, days, end, series, d, dailyData, live, weekdayTotals,
                   cur, prev, out, other, zone>>

\* HomeThrows retrying the date: the fetch of the same date is made again
HomeThrowsRetry ==
    /\ pc = "home"
    /\ \E s \in DayOutcomes(tool, series, d, end) : s.home.throws
    /\ fetchLog' = Append(fetchLog, Call("getHomeData", d, TRUE))
    /\ UNCHANGED <<tool, days, end, series, pc, d, dailyData, live, weekdayTotals,
                   result, inflight, cur, prev, out, other, zone>>

\* await whoopClient.getHomeData(dateStr) throws: the day's catch runs
HomeThrows ==
    /\ pc = "home"
    /\ \E s \in DayOutcomes(tool, series, d, end) : s.home.throws
    /\ dailyData' = CatchDay(tool, dailyData, d)
    /\ pc' = "pause"
    /\ fetchLog' = Append(fetchLog, Call("getHomeData", d, TRUE))
    /\ inflight' = inflight \ {Started("getHomeData", d)}
    /\ UNCHANGED <<tool, days, end, series, d, live, weekdayTotals, result,
                   cur, prev, out, other, zone>>

\* await whoopClient.getRecoveryDeepDive(dateStr) returns
DeepReturns ==
    /\ pc = "deep"
    /\ \E s \in DayOutcomes(tool, series, d, end) :
          /\ ~s.home.throws
          /\ LiveOf(Val(s.home.data)) = live
          /\ ~s.deep.throws
          /\ LET hr == DeepHrvRhr(Val(s.deep.data))
             IN dailyData' = PushDay(tool, dailyData, d, live, hr.hrv, hr.rhr)
          /\ fetchLog' = Append(fetchLog,
                 [Call("getRecoveryDeepDive", d, FALSE) EXCEPT !.data = s.deep.data])
    /\ live' = Null
    /\ pc' = "pause"
    /\ inflight' = inflight \ {Started("getRecoveryDeepDive", d)}
    /\ UNCHANGED <<tool, days, end, series, d, weekdayTotals, result, cur, prev, out, other, zone>>

\* await whoopClient.getRecoveryDeepDive(dateStr) throws: the inner catch
DeepThrows ==
    /\ pc = "deep"
    /\ \E s \in DayOutcomes(tool, series, d, end) :
          /\ ~s.home.throws
          /\ LiveOf(Val(s.home.data)) = live
          /\ s.deep.throws
    /\ dailyData' = PushDay(tool, dailyData, d, live, Null, Null)
    /\ live' = Null
    /\ pc' = "pause"
    /\ fetchLog' = Append(fetchLog, Call("getRecoveryDeepDive", d, TRUE))
    /\ inflight' = inflight \ {Started("getRecoveryDeepDive", d)}
    /\ UNCHANGED <<tool, days, end, series, d, weekdayTotals, result, cur, prev, out, other, zone>>

\* NextDay without the awaits: the next date's fetch is started while the
\* fetch of this date is pending
NextDayNoAwait ==
    /\ pc = "home"
    /\ d + 1 <= end
    /\ d' = d + 1
    /\ pc' = "home"
    /\ inflight' = inflight \cup {Started("getHomeData", d + 1)}
    /\ UNCHANGED <<tool, days, end, series, dailyData, live, weekdayTotals,
                   result, fetchLog, cur, prev, out, other, zone>>

\* the loop starting over from the first date after each pause
NextDayRestart ==
    /\ pc = "pause"
    /\ d + 1 <= end
    /\ d' = StartOf(tool, days, end)
    /\ pc' = "home"
    /\ dailyData' = <<>>
    /\ weekdayTotals' = ZeroTotals
    /\ fetchLog' = <<>>
    /\ inflight' = {Started("getHomeData", StartOf(tool, days, end))}
    /\ UNCHANGED <<tool, days, end, series, live, result, cur, prev, out, other, zone>>

\* the pause elapses and the loop goes on to the next date: the next
\* iteration runs up to its await of getHomeData
NextDay ==
    /\ pc = "pause"
    /\ d + 1 <= end
    /\ d' = d + 1
    /\ pc' = "home"
    /\ inflight' = inflight \cup {Started("getHomeData", d + 1)}
    /\ UNCHANGED <<tool, days, end, series, dailyData, live, weekdayTotals,
                   result, fetchLog, cur, prev, out, other, zone>>

\* the pause of the last date elapses: the handler aggregates and returns
Finish ==
    /\ pc = "pause"
    /\ d + 1 > end
    /\ d' = d + 1
    /\ result' = Some(MultiResult(tool, dailyData, weekdayTotals, days, end))
    /\ pc' = "done"
    /\ UNCHANGED <<tool, days, end, series, dailyData, live, weekdayTotals,
                   fetchLog, inflight, cur, prev, out, other, zone>>

\* the fetch of a single-date tool returns: extraction, output, return
SingleReturns ==
    /\ pc = "fetch"
    /\ \E data \in (IF tool = "overview" THEN HomeSamples ELSE DeepSamples) :
          /\ result' = Some(SingleResult(tool, data))
          /\ fetchLog' = Append(fetchLog,
                 [Call(ApiOf(tool), d, FALSE) EXCEPT !.data = Some(data)])
    /\ pc' = "done"
    /\ inflight' = inflight \ {Started(ApiOf(tool), d)}
    /\ UNCHANGED <<tool, days, end, series, d, dailyData, live, weekdayTotals,
                   cur, prev, out, other, zone>>

\* the fetch of a single-date tool throws: the catch at the tool boundary
SingleThrows ==
    /\ pc = "fetch"
    /\ result' = Some(Failure)
    /\ pc' = "done"
    /\ fetchLog' = Append(fetchLog, Call(ApiOf(tool), d, TRUE))
    /\ inflight' = inflight \ {Started(ApiOf(tool), d)}
    /\ UNCHANGED <<tool, days, end, series, d, dailyData, live, weekdayTotals,
                   cur, prev, out, other, zone>>

Next ==
    \/ HomeReturns
    \/ HomeThrows
    \/ DeepReturns
    \/ DeepThrows
    \/ NextDay
    \/ Finish
    \/ SingleReturns
    \/ SingleThrows

Spec == Init /\ [][Next]_vars

\* every pending Data Fetcher call settles (returns or throws) and every
\* timer fires.  Finish is enabled exactly in the pause of the last date and
\* leaves it, so that weak fairness of Finish is: the handler is not in the
\* pause of the last date forever.
Fairness ==
    /\ WF_vars(HomeReturns \/ HomeThrows)
    /\ WF_vars(DeepReturns \/ DeepThrows)
    /\ WF_vars(SingleReturns \/ SingleThrows)
    /\ WF_vars(NextDay)
    /\ []<>(~(pc = "pause" /\ d + 1 > end))

SpecLive == Spec /\ Fairness

(***************************************************************************)
(* The two scalar functions, applied to arguments drawn from bounded sets. *)
(***************************************************************************)
\* calcChange is tried on null and on the averages 0..MaxNum and a few more
MaxNum == 8
\* getTrend is tried on averages sum / count with count up to MaxDen
MaxDen == 2

ChangeArgs ==
    {Null} \cup {Some(n) : n \in (0..MaxNum) \cup {61, 71, 100, 110, 146}}
TrendSums == {0, 19, 20, 21, 40, 42, 95, 100, 105, 106, 200}
TrendArgs ==
    {Null} \cup {Some([num |-> n, den |-> m]) : n \in TrendSums, m \in 1..MaxDen}

InitFn ==
    /\ tool = "none"
    /\ series = "flat"
    /\ days = 0
    /\ end = EndDay
    /\ d = EndDay
    /\ dailyData = <<>>
    /\ live = Null
    /\ weekdayTotals = ZeroTotals
    /\ result = Null
    /\ fetchLog = <<>>
    /\ inflight = {}
    /\ out = Null
    /\ other = Null
    /\ zone = 0
    /\ \/ pc = "calcChange" /\ cur \in ChangeArgs /\ prev \in ChangeArgs
       \/ pc = "getTrend" /\ cur \in TrendArgs /\ prev \in TrendArgs
       \/ /\ pc = "extract"
          /\ cur \in {Some(data) : data \in DeepSamples}
          /\ prev \in {Some("recovery"), Some("strain")}

\* calcChange(cur, prev)
ApplyCalcChange ==
    /\ pc = "calcChange"
    /\ out' = Some([fn |-> "calcChange", value |-> calcChange(cur, prev)])
    /\ pc' = "applied"
    /\ UNCHANGED <<tool, days, end, series, d, dailyData, live, weekdayTotals,
                   result, fetchLog, inflight, cur, prev, other, zone>>

\* getTrend(cur, prev): cur is the first average, prev the second
ApplyGetTrend ==
    /\ pc = "getTrend"
    /\ out' = Some([fn |-> "getTrend", value |-> getTrend(cur, prev)])
    /\ pc' = "applied"
    /\ UNCHANGED <<tool, days, end, series, d, dailyData, live, weekdayTotals,
                   result, fetchLog, inflight, cur, prev, other, zone>>

\* the extraction and output of whoop_get_recovery or whoop_get_strain (prev)
\* on the deep-dive payload cur
ApplyExtract ==
    /\ pc = "extract"
    /\ out' = Some([fn |-> "extract", value |-> SingleResult(Val(prev), Val(cur))])
    /\ pc' = "applied"
    /\ UNCHANGED <<tool, days, end, series, d, dailyData, live, weekdayTotals,
                   result, fetchLog, inflight, cur, prev, other, zone>>

NextFn == ApplyCalcChange \/ ApplyGetTrend \/ ApplyExtract

SpecFn == InitFn /\ [][NextFn]_vars

(***************************************************************************)
(* Two invocations on one server.  Every state of a handler is an await;   *)
(* the event loop resumes whichever handler's await settles.  The          *)
(* variables hold the locals of the handler that runs next, other those of *)
(* the handler that stays suspended; Switch exchanges the two.  The        *)
(* handlers' locals (dailyData, weekdayTotals, the loop date, the output)  *)
(* are declared inside the handler: each invocation has its own.           *)
(***************************************************************************)
\* the longest whoop_get_history among the concurrent invocations
PairDays == 2

\* the locals of the running handler
Locals ==
    [tool |-> tool, days |-> days, end |-> end, series |-> series, pc |-> pc,
     d |-> d, dailyData |-> dailyData, live |-> live,
     weekdayTotals |-> weekdayTotals, result |-> result, fetchLog |-> fetchLog,
     inflight |-> inflight]

\* the locals of tool t called with n days and the end date endDate
Invoked(t, n, endDate) ==
    [tool |-> t, days |-> WindowOf(t, n), end |-> endDate, series |-> "flat",
     pc |-> IF t \in MultiDay THEN "home" ELSE "fetch",
     d |-> IF t \in MultiDay THEN StartOf(t, n, endDate) ELSE endDate,
     dailyData |-> <<>>, live |-> Null, weekdayTotals |-> ZeroTotals,
     result |-> Null, fetchLog |-> <<>>,
     inflight |-> {Started(IF t \in MultiDay THEN "getHomeData" ELSE ApiOf(t),
                           IF t \in MultiDay THEN StartOf(t, n, endDate)
                           ELSE endDate)}]

\* the pairs of invocations: the same tool with different arguments,
\* different tools
Pairs ==
    {<<Invoked("history", n, EndDay), Invoked("history", 1, EndDay - 1)>> :
        n \in 1..PairDays}
    \cup {<<Invoked("trends", 1, EndDay), Invoked("recovery", 1, EndDay)>>,
          <<Invoked("overview", 1, EndDay), Invoked("strain", 1, EndDay - 1)>>,
          <<Invoked("history", PairDays, EndDay), Invoked("overview", 1, EndDay)>>}

Init2 ==
    \E p \in Pairs :
        /\ tool = p[1].tool
        /\ days = p[1].days
        /\ end = p[1].end
        /\ series = p[1].series
        /\ pc = p[1].pc
        /\ d = p[1].d
        /\ dailyData = p[1].dailyData
        /\ live = p[1].live
        /\ weekdayTotals = p[1].weekdayTotals
        /\ result = p[1].result
        /\ fetchLog = p[1].fetchLog
        /\ inflight = p[1].inflight
        /\ other = Some(p[2])
        /\ zone = 0
        /\ cur = Null
        /\ prev = Null
        /\ out = Null

\* Switch with one record list for both handlers
SwitchSharingList ==
    /\ other # Null
    /\ other' = Some(Locals)
    /\ tool' = Val(other).tool
    /\ days' = Val(other).days
    /\ end' = Val(other).end
    /\ series' = Val(other).series
    /\ pc' = Val(other).pc
    /\ d' = Val(other).d
    /\ live' = Val(other).live
    /\ weekdayTotals' = Val(other).weekdayTotals
    /\ result' = Val(other).result
    /\ fetchLog' = Val(other).fetchLog
    /\ inflight' = Val(other).inflight
    /\ UNCHANGED <<dailyData, cur, prev, out, zone>>

\* the event loop turns to the other handler
Switch ==
    /\ other # Null
    /\ other' = Some(Locals)
    /\ tool' = Val(other).tool
    /\ days' = Val(other).days
    /\ end' = Val(other).end
    /\ series' = Val(other).series
    /\ pc' = Val(other).pc
    /\ d' = Val(other).d
    /\ dailyData' = Val(other).dailyData
    /\ live' = Val(other).live
    /\ weekdayTotals' = Val(other).weekdayTotals
    /\ result' = Val(other).result
    /\ fetchLog' = Val(other).fetchLog
    /\ inflight' = Val(other).inflight
    /\ UNCHANGED <<cur, prev, out, zone>>

Next2 ==
    \/ HomeReturns
    \/ HomeThrows
    \/ DeepReturns
    \/ DeepThrows
    \/ NextDay
    \/ Finish
    \/ SingleReturns
    \/ SingleThrows
    \/ Switch

Spec2 == Init2 /\ [][Next2]_vars

\* tool invocations and function applications together
InitAll == Init \/ InitFn
NextAll == Next \/ NextFn
SpecAll == InitAll /\ [][NextAll]_vars

(***************************************************************************)
(* Vocabulary of the properties.                                           *)
(***************************************************************************)
Done == pc = "done" /\ result # Null
Returned == Val(result)
Output == Val(Returned.structuredContent)

\* the sum of data[k][key] over the positions k of idx
RECURSIVE SumAt(_, _, _)
SumAt(data, idx, key) ==
    IF idx = {} THEN 0
    ELSE LET k == CHOOSE x \in idx : TRUE
         IN Val(data[k][key]) + SumAt(data, idx \ {k}, key)

\* the positions of idx at which the record has a value for key
NonNullAt(data, idx, key) == {k \in idx : data[k][key] # Null}

\* r is sum / n rounded to the nearest integer: r - 1/2 <= sum / n < r + 1/2
NearestInt(r, sum, n) ==
    /\ 2 * r * n - n <= 2 * sum
    /\ 2 * sum < 2 * r * n + n

\* avg is the mean, to the nearest integer, of the non-null values of key at
\* the positions idx, and null when there is none
MeanIsInt(avg, data, idx, key) ==
    LET at == NonNullAt(data, idx, key)
    IN IF at = {} THEN avg = Null
       ELSE avg # Null /\ NearestInt(Val(avg), SumAt(data, at, key), Cardinality(at))

\* the same to one decimal: the values in hundredths, avg in tenths
MeanIsTenth(avg, data, idx, key) ==
    LET at == NonNullAt(data, idx, key)
    IN IF at = {} THEN avg = Null
       ELSE avg # Null
            /\ NearestInt(Val(avg), SumAt(data, at, key), 10 * Cardinality(at))

\* the positions of the older and of the newer week in whoop_get_trends' list
LastWeekAt == {k \in 1..Len(dailyData) : k <= 7}
ThisWeekAt == {k \in 1..Len(dailyData) : k > 7 /\ k <= 14}
AllAt == 1..Len(dailyData)

WeekMeans(stats, idx) ==
    /\ MeanIsInt(stats.avgRecovery, dailyData, idx, "recoveryScore")
    /\ MeanIsTenth(stats.avgStrain, dailyData, idx, "strain")
    /\ MeanIsTenth(stats.avgSleep, dailyData, idx, "sleepHours")
    /\ MeanIsInt(stats.avgHrv, dailyData, idx, "hrv")
    /\ MeanIsInt(stats.avgRhr, dailyData, idx, "rhr")

\* C1: every reported average (this week and last week in whoop_get_trends,
\* the month in whoop_get_monthly_summary, the range in whoop_get_history) is
\* the mean of exactly the non-null values of its metric in its window,
\* rounded to the nearest integer (recovery, HRV, RHR) or to one decimal
\* (strain, sleep), and is null when the window has no non-null value.
C1_AveragesAreMeansOfNonNull ==
    Done =>
      /\ tool = "trends" =>
            /\ WeekMeans(Output.weekOverWeek.thisWeek, ThisWeekAt)
            /\ WeekMeans(Output.weekOverWeek.lastWeek, LastWeekAt)
      /\ tool = "monthly" =>
            /\ MeanIsInt(Output.averages.recovery, dailyData, AllAt, "recoveryScore")
            /\ MeanIsTenth(Output.averages.strain, dailyData, AllAt, "strain")
            /\ MeanIsTenth(Output.averages.sleepHours, dailyData, AllAt, "sleepHours")
            /\ MeanIsInt(Output.averages.hrv, dailyData, AllAt, "hrv")
            /\ MeanIsInt(Output.averages.rhr, dailyData, AllAt, "rhr")
      /\ tool = "history" =>
            /\ MeanIsInt(Output.averages.recoveryScore, dailyData, AllAt, "recoveryScore")
            /\ MeanIsTenth(Output.averages.strain, dailyData, AllAt, "strain")
            /\ MeanIsTenth(Output.averages.sleepHours, dailyData, AllAt, "sleepHours")
            /\ Output.averages.hrv = Null
            /\ Output.averages.restingHeartRate = Null

\* a week of whoop_get_trends with a null and a non-null recovery and strain,
\* whose averages are reported
C1_Witness ==
    /\ Done
    /\ tool = "trends"
    /\ \E j, k \in ThisWeekAt :
          /\ dailyData[j].recoveryScore = Null
          /\ dailyData[j].strain = Null
          /\ dailyData[k].recoveryScore # Null
          /\ dailyData[k].strain # Null
    /\ Output.weekOverWeek.thisWeek.avgRecovery # Null
    /\ Output.weekOverWeek.thisWeek.avgStrain # Null

\* r is the percent change from p to c as the contract states it
ChangeIs(r, c, p) ==
    IF c = Null \/ p = Null THEN r = Null
    ELSE IF Val(p) = 0 THEN r = Null
    ELSE /\ r # Null
         /\ Val(p) > 0
         /\ NearestInt(Val(r), 100 * (Val(c) - Val(p)), Val(p))

\* C2: calcChange(current, previous) is null if an operand is null or
\* previous is 0 and round(((current - previous) / previous) * 100)
\* otherwise; calcChange(110, 100) = 10; and each of the five changes of
\* whoop_get_trends is that function of the two weeks' averages.
C2_PercentChange ==
    /\ (pc = "applied" /\ Val(out).fn = "calcChange") =>
          /\ ChangeIs(Val(out).value, cur, prev)
          /\ (cur = Some(110) /\ prev = Some(100)) => Val(out).value = Some(10)
    /\ (Done /\ tool = "trends") =>
          LET w == Output.weekOverWeek
          IN /\ ChangeIs(w.changes.recoveryChange, w.thisWeek.avgRecovery,
                         w.lastWeek.avgRecovery)
             /\ ChangeIs(w.changes.strainChange, w.thisWeek.avgStrain,
                         w.lastWeek.avgStrain)
             /\ ChangeIs(w.changes.sleepChange, w.thisWeek.avgSleep,
                         w.lastWeek.avgSleep)
             /\ ChangeIs(w.changes.hrvChange, w.thisWeek.avgHrv, w.lastWeek.avgHrv)
             /\ ChangeIs(w.changes.rhrChange, w.thisWeek.avgRhr, w.lastWeek.avgRhr)

\* calcChange(110, 100) has been applied
C2_Witness ==
    /\ pc = "applied"
    /\ Val(out).fn = "calcChange"
    /\ cur = Some(110)
    /\ prev = Some(100)
    /\ Val(out).value = Some(10)

\* every metric of the record is null
AllNull(r) == \A f \in (DOMAIN r) \ {"date"} : r[f] = Null

\* the calls of getHomeData made so far
HomeCalls == {k \in 1..Len(fetchLog) : fetchLog[k].api = "getHomeData"}
\* the first date of the window
Start == StartOf(tool, days, end)

\* C3: in every multi-day tool a day whose fetch threw has a record in the
\* list, at its date, with every metric null: the failed day is not dropped.
C3_FailedDayKeptAsNullRecord ==
    tool \in MultiDay =>
        \A k \in HomeCalls :
            fetchLog[k].threw =>
                \E j \in 1..Len(dailyData) :
                    /\ dailyData[j].date = fetchLog[k].date
                    /\ AllNull(dailyData[j])

\* whoop_get_monthly_summary has returned after the fetch of one of its dates
\* threw, and its list has no record at that date
C3_Witness ==
    /\ Done
    /\ tool = "monthly"
    /\ \E k \in HomeCalls :
          /\ fetchLog[k].threw
          /\ \A j \in 1..Len(dailyData) : dailyData[j].date # fetchLog[k].date
    /\ Output.period.daysWithData < 30

C5_FetchErrorIsErrorResult ==
    Done =>
        /\ (Returned.structuredContent # Null) <=> (Returned.isError = Null)
        /\ tool \notin MultiDay =>
              /\ Len(fetchLog) = 1
              /\ fetchLog[1].threw =>
                    /\ Returned.isError = Some(TRUE)
                    /\ Returned.content = ErrorText
                    /\ Returned.structuredContent = Null

\* whoop_get_overview has returned after its fetch threw
C5_Witness ==
    /\ Done
    /\ tool = "overview"
    /\ fetchLog[1].threw
    /\ Returned.isError = Some(TRUE)

\* the positions of the records whose date lies in lo..hi
AtDates(lo, hi) == {k \in 1..Len(dailyData) : dailyData[k].date \in lo..hi}

\* the number of positions of idx with a recovery score of at least 70
GoodDaysAt(idx) ==
    Cardinality({k \in idx : /\ dailyData[k].recoveryScore # Null
                             /\ Val(dailyData[k].recoveryScore) >= 70})

\* the recovery scores of the list, in order
Recoveries == [k \in 1..Len(dailyData) |-> dailyData[k].recoveryScore]

C8_DaysAbove70 ==
    (Done /\ tool = "trends") =>
        LET w == Output.weekOverWeek
        IN /\ w.thisWeek.daysAbove70Recovery = GoodDaysAt(ThisWeekAt)
           /\ w.lastWeek.daysAbove70Recovery = GoodDaysAt(LastWeekAt)
           /\ w.thisWeek.daysAbove70Recovery \in 0..7
           /\ w.lastWeek.daysAbove70Recovery \in 0..7

\* a week with a null score, a score of exactly 70 and a score of 69, of
\* which the 70 is counted
C8_Witness ==
    /\ Done
    /\ tool = "trends"
    /\ \E i, j, k \in ThisWeekAt :
          /\ dailyData[i].recoveryScore = Null
          /\ dailyData[j].recoveryScore = Some(70)
          /\ dailyData[k].recoveryScore = Some(69)
    /\ Output.weekOverWeek.thisWeek.daysAbove70Recovery >= 1

\* h is the highlight of key: null iff no record has a value for key;
\* otherwise the date and the value (as Shown) of a record whose value is
\* extreme under AtLeastAsGood among the non-null ones, and the earliest such
ExtremeFirst(h, key, AtLeastAsGood(_, _), Shown(_)) ==
    LET idx == NonNullAt(dailyData, AllAt, key)
        v(k) == Val(dailyData[k][key])
    IN /\ h = Null <=> idx = {}
       /\ h # Null =>
            \E k \in idx :
               /\ Val(h).date = dailyData[k].date
               /\ Val(h).value = Shown(v(k))
               /\ \A j \in idx : AtLeastAsGood(v(k), v(j))
               /\ \A j \in idx : v(j) = v(k) => dailyData[k].date <= dailyData[j].date

AtLeast(a, b) == a >= b
AtMost(a, b) == a <= b
AsIs(v) == v
ToOneDecimal(v) == MathRound(v, 10)

\* C9: the highlights of whoop_get_monthly_summary are the records with the
\* maximum (minimum for worstRecoveryDay) non-null value of their metric, the
\* chronologically first one when several share it, and are null iff no
\* record has a value; recoveries 80 then 45 on two consecutive dates give
\* best = (first date, 80) and worst = (second date, 45).
C9_Highlights ==
    (Done /\ tool = "monthly") =>
        LET h == Output.highlights
        IN /\ ExtremeFirst(h.bestRecoveryDay, "recoveryScore", AtLeast, AsIs)
           /\ ExtremeFirst(h.worstRecoveryDay, "recoveryScore", AtMost, AsIs)
           /\ ExtremeFirst(h.highestStrainDay, "strain", AtLeast, AsIs)
           /\ ExtremeFirst(h.bestSleepDay, "sleepHours", AtLeast, ToOneDecimal)
           /\ Recoveries = <<Some(80), Some(45)>> =>
                 /\ h.bestRecoveryDay = Some([date |-> dailyData[1].date, value |-> 80])
                 /\ h.worstRecoveryDay = Some([date |-> dailyData[2].date, value |-> 45])

\* whoop_get_monthly_summary has returned on a month whose only records are
\* 80 and then 45 on the two last dates
C9_Witness ==
    /\ Done
    /\ tool = "monthly"
    /\ Recoveries = <<Some(80), Some(45)>>
    /\ dailyData[1].date = end - 1
    /\ dailyData[2].date = end
    /\ Output.highlights.bestRecoveryDay = Some([date |-> end - 1, value |-> 80])
    /\ Output.highlights.worstRecoveryDay = Some([date |-> end, value |-> 45])

\* C10: strainRecoveryBalance of whoop_get_trends is one of "overreaching",
\* "undertrained", "balanced": "overreaching" iff this week's
\* avgStrain / (avgRecovery / 10) > 2, "undertrained" iff it is < 1,
\* "balanced" otherwise, ratios of exactly 1 and 2 included.  avgStrain is in
\* tenths, so the ratio is avgStrain / avgRecovery in these units; there is no
\* ratio when an average is null, and for avgRecovery = 0 it is the IEEE
\* quotient (Infinity for a positive strain, NaN for 0).
C10_BalanceThreeWay ==
    (Done /\ tool = "trends") =>
        LET w == Output.weekOverWeek.thisWeek
            label == Output.strainRecoveryBalance
            has == w.avgStrain # Null /\ w.avgRecovery # Null
            s == Val(w.avgStrain)
            r == Val(w.avgRecovery)
            over == has /\ (IF r = 0 THEN s > 0 ELSE s > 2 * r)
            under == has /\ r > 0 /\ s < r
        IN /\ label \in {"overreaching", "undertrained", "balanced"}
           /\ label = "overreaching" <=> over
           /\ label = "undertrained" <=> under
           /\ label = "balanced" <=> (~over /\ ~under)

\* this week's averages are strain 10.0 and recovery 50, a ratio of exactly 2
C10_Witness ==
    /\ Done
    /\ tool = "trends"
    /\ Output.weekOverWeek.thisWeek.avgStrain = Some(100)
    /\ Output.weekOverWeek.thisWeek.avgRecovery = Some(50)
    /\ Output.strainRecoveryBalance = "balanced"

\* the dates of the getHomeData calls that settled, in the order they settled
HomeDates ==
    LET calls == SelectSeq(fetchLog, LAMBDA c : c.api = "getHomeData")
    IN [k \in 1..Len(calls) |-> calls[k].date]

\* at most one call is pending, it is for the date under way, every earlier
\* date of the window has settled, and the dates settled in ascending order
\* from the start of the window without a gap
OneFetchAtATime ==
    tool \in MultiDay =>
        /\ Cardinality(inflight) <= 1
        /\ \A c \in inflight :
              /\ c.date = d
              /\ c.api = "getHomeData" => Len(HomeDates) = d - Start
              /\ c.api = "getRecoveryDeepDive" => Len(HomeDates) = d - Start + 1
        /\ \A k \in 1..Len(HomeDates) : HomeDates[k] = Start + k - 1
        /\ \A k \in 1..Len(fetchLog) :
              fetchLog[k].api = "getRecoveryDeepDive" =>
                 /\ k > 1
                 /\ fetchLog[k - 1].api = "getHomeData"
                 /\ fetchLog[k - 1].date = fetchLog[k].date
                 /\ ~fetchLog[k - 1].threw
        /\ pc = "pause" => inflight = {}
        /\ Done => /\ inflight = {}
                   /\ Len(HomeDates) = end - Start + 1

\* a fetch is started only for the next date, from the pause, with nothing
\* pending, or for the same date once its getHomeData has returned
StartsAfterPause ==
    tool \in MultiDay =>
        \A c \in inflight' \ inflight :
            \/ /\ c = Started("getHomeData", d + 1)
               /\ pc = "pause"
               /\ inflight = {}
               /\ d' = d + 1
            \/ /\ c = Started("getRecoveryDeepDive", d)
               /\ inflight = {Started("getHomeData", d)}
               /\ inflight' = {c}

CallsOf(api, date) ==
    {k \in 1..Len(fetchLog) : fetchLog[k].api = api /\ fetchLog[k].date = date}

\* the number of days of the window: days, 14 and 30
WindowDays == end - Start + 1

DayOver(k) == fetchLog[k].date < d \/ pc \in {"pause", "done"}

\* C13: in every multi-day tool a day whose fetch returned a payload without
\* the live-metrics block has a record in the list, at its date, with every
\* metric null; the loop goes on to the next date and the invocation ends
\* without a top-level error.
C13_IncompleteDayIsNullRecord ==
    tool \in MultiDay =>
        /\ \A k \in HomeCalls :
              (fetchLog[k].gap /\ DayOver(k)) =>
                  \E j \in 1..Len(dailyData) :
                      /\ dailyData[j].date = fetchLog[k].date
                      /\ AllNull(dailyData[j])
        /\ Done => /\ Returned.isError = Null
                   /\ Cardinality(HomeCalls) = WindowDays

\* whoop_get_history has returned after a day's payload came without live
\* metrics, and its list has no record at that date
C13_Witness ==
    /\ Done
    /\ tool = "history"
    /\ \E k \in HomeCalls :
          /\ fetchLog[k].gap
          /\ \A j \in 1..Len(dailyData) : dailyData[j].date # fetchLog[k].date

\* the fetch of a single-date tool returned a payload
SingleFetched ==
    /\ Done
    /\ tool \notin MultiDay
    /\ Len(fetchLog) = 1
    /\ ~fetchLog[1].threw

\* C15: field extraction never raises on absence: whatever node the payload
\* lacks, a tool whose fetches return ends with a normal result, not with an
\* error result.
C15_AbsenceNeverRaises ==
    /\ SingleFetched => Returned.isError = Null
    /\ (Done /\ tool \in MultiDay) => Returned.isError = Null

\* whoop_get_recovery has returned an error result although its fetch
\* returned a payload
C15_Witness ==
    /\ SingleFetched
    /\ tool = "recovery"
    /\ Returned.isError = Some(TRUE)
    /\ Returned.structuredContent = Null

(***************************************************************************)
(* C16: the extractor of whoop_get_recovery and whoop_get_strain.          *)
(***************************************************************************)
\* the positions <<section, item>> of the items of a payload that carry a tag
Tagged(data, type) ==
    {p \in (1..Len(Val(data.sections))) \X (1..4) :
        /\ Val(data.sections)[p[1]].items # Null
        /\ p[2] <= Len(Val(Val(data.sections)[p[1]].items))
        /\ Val(Val(data.sections)[p[1]].items)[p[2]].type = type}
\* document order of positions
Before(p, q) == p[1] < q[1] \/ (p[1] = q[1] /\ p[2] <= q[2])
FirstTagged(data, type) ==
    CHOOSE p \in Tagged(data, type) : \A q \in Tagged(data, type) : Before(p, q)
ContentAt(data, p) == Val(Val(Val(data.sections)[p[1]].items)[p[2]].content)
\* the application of the extractor that has produced an output
Extracted ==
    /\ out # Null
    /\ Val(out).fn = "extract"
    /\ Val(out).value.isError = Null

C16_WitnessDefaults ==
    /\ Extracted
    /\ Val(cur).sections # Null /\ Val(cur).sections # Some(<<>>)
    /\ Tagged(Val(cur), "SCORE_GAUGE") = {}
    /\ Tagged(Val(cur), "CONTRIBUTORS_TILE") = {}
    /\ Val(Val(out).value.structuredContent).score = "N/A"

(***************************************************************************)
(* C18: the insight rules of whoop_get_trends.                             *)
(***************************************************************************)
\* the place of the rule that writes an insight, in the fixed rule order
RuleIndex(label) ==
    CASE label \in {"Recovery improved", "Recovery declined"} -> 1
      [] label \in {"HRV increased", "HRV decreased"} -> 2
      [] label \in {"Resting heart rate dropped", "Resting heart rate increased"} -> 3
      [] label \in {"Average sleep this week", "Great sleep average"} -> 4
      [] label \in {"Strong week", "Only days with good recovery"} -> 5
      [] OTHER -> 6

\* the condition of rule i, read from the output's statistics alone
RuleHolds(i, o) ==
    LET tw == o.weekOverWeek.thisWeek
        lw == o.weekOverWeek.lastWeek
        ch == o.weekOverWeek.changes
    IN CASE i = 1 -> /\ tw.avgRecovery # Null /\ lw.avgRecovery # Null
                     /\ tw.avgRecovery # lw.avgRecovery
         [] i = 2 -> /\ tw.avgHrv # Null /\ lw.avgHrv # Null /\ ch.hrvChange # Null
                     /\ (Val(ch.hrvChange) > 10 \/ Val(ch.hrvChange) < 0 - 10)
         [] i = 3 -> /\ tw.avgRhr # Null /\ lw.avgRhr # Null /\ ch.rhrChange # Null
                     /\ (Val(ch.rhrChange) < 0 - 5 \/ Val(ch.rhrChange) > 5)
         [] i = 4 -> /\ tw.avgSleep # Null
                     /\ (Val(tw.avgSleep) < 70 \/ Val(tw.avgSleep) >= 80)
         [] i = 5 -> tw.daysAbove70Recovery >= 5 \/ tw.daysAbove70Recovery <= 2
         [] OTHER -> o.strainRecoveryBalance # "balanced"

\* the rules whose insight is in the list
RulesFired(o) == {RuleIndex(o.insights[k].rule) : k \in 1..Len(o.insights)}

\* C18: in a returned whoop_get_trends the insights come in the fixed rule
\* order (recovery change, HRV change, RHR change, sleep average, 70%+ days,
\* balance), at most one per rule, and the insight of a rule is in the list
\* exactly when that rule's own condition holds, whatever the other rules did.
C18_RulesIndependentAndOrdered ==
    (Done /\ tool = "trends") =>
        /\ \A k \in 1..(Len(Output.insights) - 1) :
              RuleIndex(Output.insights[k].rule) < RuleIndex(Output.insights[k + 1].rule)
        /\ \A i \in 1..6 : (i \in RulesFired(Output)) <=> RuleHolds(i, Output)

\* several rules fire in one result while a rule between them does not
C18_Witness ==
    /\ Done
    /\ tool = "trends"
    /\ {1, 2, 3, 5} \subseteq RulesFired(Output)
    /\ 4 \notin RulesFired(Output)
    /\ Len(Output.insights) >= 4

(***************************************************************************)
(* C19: the recovery distribution of whoop_get_monthly_summary.            *)
(***************************************************************************)
\* the positions of the records whose recovery score lies in lo..hi
ScoredIn(lo, hi) ==
    {k \in 1..Len(dailyData) :
        /\ dailyData[k].recoveryScore # Null
        /\ Val(dailyData[k].recoveryScore) >= lo
        /\ Val(dailyData[k].recoveryScore) <= hi}
Scored == {k \in 1..Len(dailyData) : dailyData[k].recoveryScore # Null}

\* C19: in a returned whoop_get_monthly_summary greenRecoveryDays counts the
\* records with recoveryScore >= 67, yellowRecoveryDays those with
\* 34 <= recoveryScore < 67 and redRecoveryDays those with recoveryScore < 34;
\* a record without a score is in no tier, so the three counts add up to the
\* number of records with a score, which is at most 30.
C19_DistributionTiers ==
    (Done /\ tool = "monthly") =>
        LET dist == Output.distribution
        IN /\ dist.greenRecoveryDays
                 = Cardinality({k \in Scored : Val(dailyData[k].recoveryScore) >= 67})
           /\ dist.yellowRecoveryDays
                 = Cardinality({k \in Scored : /\ Val(dailyData[k].recoveryScore) >= 34
                                               /\ Val(dailyData[k].recoveryScore) < 67})
           /\ dist.redRecoveryDays
                 = Cardinality({k \in Scored : Val(dailyData[k].recoveryScore) < 34})
           /\ dist.greenRecoveryDays + dist.yellowRecoveryDays + dist.redRecoveryDays
                 = Cardinality(Scored)
           /\ Cardinality(Scored) <= 30

\* a month with scores at both sides of each cutoff and a record without score
C19_Witness ==
    /\ Done
    /\ tool = "monthly"
    /\ ScoredIn(33, 33) # {} /\ ScoredIn(34, 34) # {}
    /\ ScoredIn(66, 66) # {} /\ ScoredIn(67, 67) # {}
    /\ Cardinality(Scored) < Len(dailyData)
    /\ Output.distribution.greenRecoveryDays > 0
    /\ Output.distribution.yellowRecoveryDays > 0
    /\ Output.distribution.redRecoveryDays > 0

(***************************************************************************)
(* C20: termination.                                                       *)
(***************************************************************************)
\* the iterations the day loop has completed: the dates whose getHomeData
\* call has settled and whose pause has begun
Iterations == {c.date : c \in {fetchLog[k] : k \in {j \in 1..Len(fetchLog) : DayOver(j)}}}

Field(field, at, value) == [field |-> field, at |-> at, null |-> value = Null]

\* the nullable fields of the output o of tool t, after the output schemas
NullableFields(t, o) ==
    CASE t = "trends" ->
           LET tw == o.weekOverWeek.thisWeek
               lw == o.weekOverWeek.lastWeek
               ch == o.weekOverWeek.changes
           IN { Field("thisWeek.avgRecovery", 0, tw.avgRecovery),
                Field("thisWeek.avgStrain", 0, tw.avgStrain),
                Field("thisWeek.avgSleep", 0, tw.avgSleep),
                Field("thisWeek.avgHrv", 0, tw.avgHrv),
                Field("thisWeek.avgRhr", 0, tw.avgRhr),
                Field("lastWeek.avgRecovery", 0, lw.avgRecovery),
                Field("lastWeek.avgStrain", 0, lw.avgStrain),
                Field("lastWeek.avgSleep", 0, lw.avgSleep),
                Field("lastWeek.avgHrv", 0, lw.avgHrv),
                Field("lastWeek.avgRhr", 0, lw.avgRhr),
                Field("changes.recoveryChange", 0, ch.recoveryChange),
                Field("changes.strainChange", 0, ch.strainChange),
                Field("changes.sleepChange", 0, ch.sleepChange),
                Field("changes.hrvChange", 0, ch.hrvChange),
                Field("changes.rhrChange", 0, ch.rhrChange) }
      [] t = "monthly" ->
           { Field("totals.totalStrain", 0, o.totals.totalStrain),
             Field("totals.totalCalories", 0, o.totals.totalCalories),
             Field("totals.totalSleepHours", 0, o.totals.totalSleepHours),
             Field("averages.recovery", 0, o.averages.recovery),
             Field("averages.strain", 0, o.averages.strain),
             Field("averages.sleepHours", 0, o.averages.sleepHours),
             Field("averages.hrv", 0, o.averages.hrv),
             Field("averages.rhr", 0, o.averages.rhr),
             Field("highlights.bestRecoveryDay", 0, o.highlights.bestRecoveryDay),
             Field("highlights.worstRecoveryDay", 0, o.highlights.worstRecoveryDay),
             Field("highlights.highestStrainDay", 0, o.highlights.highestStrainDay),
             Field("highlights.bestSleepDay", 0, o.highlights.bestSleepDay) }
      [] t = "history" ->
           { Field("averages.recoveryScore", 0, o.averages.recoveryScore),
             Field("averages.strain", 0, o.averages.strain),
             Field("averages.sleepHours", 0, o.averages.sleepHours),
             Field("averages.hrv", 0, o.averages.hrv),
             Field("averages.restingHeartRate", 0, o.averages.restingHeartRate),
             Field("weekdayPatterns.bestRecoveryDay", 0,
                   o.weekdayPatterns.bestRecoveryDay),
             Field("weekdayPatterns.worstRecoveryDay", 0,
                   o.weekdayPatterns.worstRecoveryDay) }
           \cup {Field("dailyData.recoveryScore", k, o.dailyData[k].recoveryScore) :
                    k \in 1..Len(o.dailyData)}
           \cup {Field("dailyData.strain", k, o.dailyData[k].strain) :
                    k \in 1..Len(o.dailyData)}
           \cup {Field("dailyData.sleepHours", k, o.dailyData[k].sleepHours) :
                    k \in 1..Len(o.dailyData)}
      [] t = "overview" ->
           {Field("gauges.scoreSuffix", k, o.gauges[k].scoreSuffix) :
               k \in 1..Len(o.gauges)}
           \cup {Field("statistics.thirtyDayAverage", k, o.statistics[k].thirtyDayAverage) :
                    k \in 1..Len(o.statistics)}
      [] OTHER ->
           {Field("contributors.value", k, o.contributors[k].value) :
               k \in 1..Len(o.contributors)}
           \cup {Field("contributors.baseline", k, o.contributors[k].baseline) :
                    k \in 1..Len(o.contributors)}
           \cup {Field("coachInsight", 0, o.coachInsight)}
           \cup (IF t = "strain"
                 THEN { Field("strainScore.target", 0, o.target),
                        Field("strainScore.lowerOptimal", 0, o.lowerOptimal),
                        Field("strainScore.higherOptimal", 0, o.higherOptimal) }
                 ELSE {})

\* a tool has returned an output and its text
Rendered == Done /\ Returned.isError = Null
\* what the text shows of field f: the set of the renderings of its places
ShownOf(f) ==
    {Returned.content[k].shown :
        k \in {j \in 1..Len(Returned.content) :
                  /\ Returned.content[j].field = f.field
                  /\ Returned.content[j].at = f.at}}

OwnLine ==
    { "thisWeek.avgRecovery", "thisWeek.avgStrain", "thisWeek.avgSleep",
      "thisWeek.avgHrv", "thisWeek.avgRhr",
      "lastWeek.avgRecovery", "lastWeek.avgStrain", "lastWeek.avgSleep",
      "lastWeek.avgHrv", "lastWeek.avgRhr",
      "changes.recoveryChange", "changes.strainChange", "changes.sleepChange",
      "changes.hrvChange", "changes.rhrChange",
      "totals.totalStrain", "totals.totalCalories", "totals.totalSleepHours",
      "averages.recovery", "averages.recoveryScore", "averages.strain",
      "averages.sleepHours", "averages.rhr",
      "highlights.bestRecoveryDay", "highlights.worstRecoveryDay",
      "highlights.highestStrainDay", "highlights.bestSleepDay",
      "weekdayPatterns.bestRecoveryDay", "weekdayPatterns.worstRecoveryDay",
      "contributors.value", "contributors.baseline",
      "statistics.thirtyDayAverage" }
    \cup (IF tool = "monthly" THEN {"averages.hrv"} ELSE {})
\* the nullable fields whose line is pushed only when they have a value
OmittedWhenNull ==
    {"coachInsight", "strainScore.target", "strainScore.lowerOptimal",
     "strainScore.higherOptimal"}
\* the nullable fields of whoop_get_history that the text does not print
NeverPrinted ==
    {"averages.hrv", "averages.restingHeartRate", "dailyData.recoveryScore",
     "dailyData.strain", "dailyData.sleepHours"}

C17_WitnessTrends ==
    /\ Rendered
    /\ tool = "trends"
    /\ \E j, k \in 1..Len(Returned.content) :
          Returned.content[j].shown = "N/A" /\ Returned.content[k].shown = "value"

(***************************************************************************)
(* C14: concurrent invocations.                                            *)
(***************************************************************************)
\* the day loop run alone on the responses of log, from its entry k on: the
\* record list and the weekday totals it ends with
RECURSIVE ReplayDays(_, _, _, _, _)
ReplayDays(t, log, k, data, totals) ==
    IF k > Len(log) THEN [dailyData |-> data, weekdayTotals |-> totals]
    ELSE IF log[k].threw
    THEN ReplayDays(t, log, k + 1, CatchDay(t, data, log[k].date), totals)
    ELSE IF t = "history"
    THEN LET lv == LiveOf(Val(log[k].data))
         IN ReplayDays(t, log, k + 1,
                       IF lv # Null
                       THEN Append(data, HistoryRecord(log[k].date, Val(lv)))
                       ELSE data,
                       IF lv # Null
                       THEN TrackWeekday(totals, log[k].date, Val(lv))
                       ELSE totals)
    ELSE IF k + 1 > Len(log) THEN [dailyData |-> data, weekdayTotals |-> totals]
    ELSE LET lv == LiveOf(Val(log[k].data))
             hr == IF log[k + 1].threw THEN [hrv |-> Null, rhr |-> Null]
                   ELSE DeepHrvRhr(Val(log[k + 1].data))
         IN ReplayDays(t, log, k + 2,
                       PushDay(t, data, log[k].date, lv, hr.hrv, hr.rhr), totals)

\* the result of the invocation with the locals l when it runs alone and the
\* Data Fetcher answers as in l.fetchLog
RunAlone(l) ==
    IF l.tool \in MultiDay
    THEN LET r == ReplayDays(l.tool, l.fetchLog, 1, <<>>, ZeroTotals)
         IN MultiResult(l.tool, r.dailyData, r.weekdayTotals, l.days, l.end)
    ELSE IF l.fetchLog[1].threw THEN Failure
    ELSE SingleResult(l.tool, Val(l.fetchLog[1].data))

\* between two fetches the lists of l are those of the loop run alone, and
\* the result of l, once returned, is that of the invocation run alone
AsAlone(l) ==
    /\ (l.tool \in MultiDay /\ l.pc \in {"pause", "done"}) =>
          LET r == ReplayDays(l.tool, l.fetchLog, 1, <<>>, ZeroTotals)
          IN /\ l.dailyData = r.dailyData
             /\ l.weekdayTotals = r.weekdayTotals
    /\ l.pc = "done" => l.result = Some(RunAlone(l))
    /\ l.pc # "done" => l.result = Null

\* C14: of two invocations whose fetches and pauses interleave in any order,
\* each has, between its fetches, the record list and totals it has when run
\* alone on the responses it received, and returns the result it returns when
\* run alone on them; a step of one invocation leaves the locals of the
\* other (record list, totals, loop date, result) as they were.
C14_InvocationsIndependent ==
    /\ [](other # Null => AsAlone(Locals) /\ AsAlone(Val(other)))
    /\ [][other # Null =>
             \/ other' = other
             \/ other' = Some(Locals) /\ Some(Locals') = other]_vars

\* whoop_get_history over two days has returned while the other invocation,
\* which has pushed its record, has yet to return: their steps interleaved
C14_Witness ==
    /\ other # Null
    /\ tool = "history"
    /\ Done
    /\ Len(dailyData) = 2
    /\ Val(other).tool = "history"
    /\ Val(other).pc = "pause"
    /\ Len(Val(other).dailyData) = 1
    /\ Val(other).end # end

(***************************************************************************)
(* C21: the two windows of whoop_get_history's trends.                     *)
(***************************************************************************)
\* the dates of the first floor(days / 2) days of the range, and the others
EarlierDates == Start..(Start + (days \div 2) - 1)
LaterDates == (Start + (days \div 2))..end
\* the collected records whose date is one of dates, in order
RecordsAt(dates) == SelectSeq(dailyData, LAMBDA r : r.date \in dates)
\* the trend labels of the records of the two sets of dates
TrendsBetween(earlier, later) ==
    [recoveryTrend |-> getTrend(calcAvg(RecordsAt(earlier), "recoveryScore"),
                                calcAvg(RecordsAt(later), "recoveryScore")),
     strainTrend |-> getTrend(calcAvg(RecordsAt(earlier), "strain"),
                              calcAvg(RecordsAt(later), "strain")),
     sleepTrend |-> getTrend(calcAvg(RecordsAt(earlier), "sleepHours"),
                             calcAvg(RecordsAt(later), "sleepHours"))]

\* C21: in a returned whoop_get_history the first window is exactly the
\* records of the earlier floor(days / 2) dates of the range and the second
\* window the records of the later dates; the windows are disjoint and
\* together make up the record list; each trend label compares the two; for
\* days = 1 every trend is "insufficient data".
C21_HalvesOfDateRange ==
    (Done /\ tool = "history") =>
        /\ firstHalf(dailyData) = RecordsAt(EarlierDates)
        /\ secondHalf(dailyData) = RecordsAt(LaterDates)
        /\ firstHalf(dailyData) \o secondHalf(dailyData) = dailyData
        /\ Output.trends = TrendsBetween(EarlierDates, LaterDates)
        /\ days = 1 => \A f \in DOMAIN Output.trends :
                           Output.trends[f] = "insufficient data"

\* whoop_get_history over three days has returned, the first date's payload
\* having come without live metrics: the record of the second date, a later
\* date of the range, is the first window, and the recovery trend is a label
\* computed against it
C21_Witness ==
    /\ Done
    /\ tool = "history"
    /\ days = 3
    /\ fetchLog[1].gap
    /\ Len(dailyData) = 2
    /\ firstHalf(dailyData) = <<dailyData[1]>>
    /\ dailyData[1].date \in LaterDates
    /\ Output.trends.recoveryTrend \in {"improving", "declining"}
    /\ TrendsBetween(EarlierDates, LaterDates).recoveryTrend = "insufficient data"

\* the same with every day's payload complete: the windows are the halves of
\* the date range
C21_WitnessComplete ==
    /\ Done
    /\ tool = "history"
    /\ days = 3
    /\ Len(dailyData) = 3
    /\ firstHalf(dailyData) = RecordsAt(EarlierDates)
    /\ Output.trends.recoveryTrend = "improving"

(***************************************************************************)
(* C22: the metrics of a day record against the payloads of its day.       *)
(***************************************************************************)
\* the settled call of api for the date
CallOf(api, date) == fetchLog[CHOOSE k \in CallsOf(api, date) : TRUE]

\* what the home payload fetched for the date carries for a live metric:
\* nothing when the call threw or the payload has no live metrics
LiveCarried(date, metric) ==
    IF CallOf("getHomeData", date).threw THEN Null
    ELSE LET lv == LiveOf(Val(CallOf("getHomeData", date).data))
         IN IF lv = Null THEN Null ELSE Val(lv)[metric]

\* what the deep dive fetched for the date carries for the contributor id:
\* the number its status reads as, nothing when no deep dive returned or the
\* tile has no such metric or the status is not a number
DeepCarried(date, id) ==
    IF CallsOf("getRecoveryDeepDive", date) = {} THEN Null
    ELSE IF CallOf("getRecoveryDeepDive", date).threw THEN Null
    ELSE LET tile == contributorsTile(Val(CallOf("getRecoveryDeepDive", date).data))
         IN IF tile = Null \/ Val(tile).metrics = Null THEN Null
            ELSE LET metrics == Val(Val(tile).metrics)
                     hits == {i \in 1..Len(metrics) :
                                 /\ metrics[i].id = id
                                 /\ parseFloat(metrics[i].status) # Null}
                 IN IF hits = {} THEN Null
                    ELSE parseFloat(metrics[CHOOSE i \in hits :
                                               \A j \in hits : j <= i].status)

\* C22: in every multi-day tool each metric of each day record is the value
\* the day's payload carries for it, and null exactly when the payload
\* carries none, each metric on its own; a 0 of the backend is recorded as 0.
\* (sleepHours is ms_of_sleep in hours, the same number in the units used.)
C22_MetricNullIffPayloadLacksIt ==
    tool \in MultiDay =>
        \A k \in 1..Len(dailyData) :
            LET r == dailyData[k]
            IN /\ r.recoveryScore = LiveCarried(r.date, "recovery_score")
               /\ r.strain = LiveCarried(r.date, "day_strain")
               /\ r.sleepHours = LiveCarried(r.date, "ms_of_sleep")
               /\ tool # "trends" => r.calories = LiveCarried(r.date, "calories")
               /\ tool # "history" =>
                     /\ r.hrv = DeepCarried(r.date, "CONTRIBUTORS_TILE_HRV")
                     /\ r.rhr = DeepCarried(r.date, "CONTRIBUTORS_TILE_RHR")

\* whoop_get_trends has returned with a record whose sleepHours is null, the
\* day's payload carrying ms_of_sleep = 0, and a record whose recoveryScore,
\* reported as 0, is 0
C22_Witness ==
    /\ Done
    /\ tool = "trends"
    /\ \E k \in 1..Len(dailyData) :
          /\ LiveCarried(dailyData[k].date, "ms_of_sleep") = Some(0)
          /\ dailyData[k].sleepHours = Null
          /\ dailyData[k].recoveryScore # Null
    /\ \E k \in 1..Len(dailyData) :
          /\ LiveCarried(dailyData[k].date, "recovery_score") = Some(0)
          /\ dailyData[k].recoveryScore = Some(0)
          /\ dailyData[k].strain = Some(0)

(***************************************************************************)
(* C23: the record list of whoop_get_trends is aligned with the dates.     *)
(***************************************************************************)
\* the number of dates of the window whose iteration has pushed its record
DaysPushed ==
    IF pc \in {"pause", "done"} THEN (IF d > end THEN end ELSE d) - Start + 1
    ELSE d - Start

\* the dates of the records of a list, in order
DatesOf(arr) == [k \in 1..Len(arr) |-> arr[k].date]

DeepFailures ==
    {k \in 1..Len(fetchLog) :
        fetchLog[k].api = "getRecoveryDeepDive" /\ fetchLog[k].threw}

\* the record r is what the day's home payload gives, without HRV and RHR
HomeOnlyRecord(r) ==
    /\ r.recoveryScore = LiveCarried(r.date, "recovery_score")
    /\ r.strain = LiveCarried(r.date, "day_strain")
    /\ r.sleepHours = SleepHours(LiveCarried(r.date, "ms_of_sleep"))
    /\ r.hrv = Null
    /\ r.rhr = Null

\* C24: in whoop_get_trends and whoop_get_monthly_summary a day whose home
\* fetch returned and whose deep-dive fetch threw has a record in the list, at
\* its date, with the recoveryScore, strain and sleepHours of the home payload
\* and with hrv and rhr null: the day is not dropped and its home metrics are
\* not nulled.
C24_DeepDiveErrorConfined ==
    tool \in {"trends", "monthly"} =>
        \A k \in DeepFailures :
            \E j \in 1..Len(dailyData) :
                /\ dailyData[j].date = fetchLog[k].date
                /\ HomeOnlyRecord(dailyData[j])

\* whoop_get_monthly_summary has returned with the record of a day whose deep
\* dive threw, its home metrics kept, and without a record for another day
\* whose deep dive threw, that day's home payload having no live metrics
C24_Witness ==
    /\ Done
    /\ tool = "monthly"
    /\ \E k \in DeepFailures :
          \E j \in 1..Len(dailyData) :
              /\ dailyData[j].date = fetchLog[k].date
              /\ dailyData[j].recoveryScore = Some(80)
              /\ dailyData[j].strain # Null
              /\ dailyData[j].hrv = Null
    /\ \E k \in DeepFailures :
          /\ CallOf("getHomeData", fetchLog[k].date).gap
          /\ \A j \in 1..Len(dailyData) : dailyData[j].date # fetchLog[k].date

(***************************************************************************)
(* C25: insights and recommendations come from metrics that have data.     *)
(***************************************************************************)
\* the place of the rule that writes a recommendation, in the rule order
RecRuleIndex(label) ==
    CASE label = "Consider prioritizing sleep and reducing strain" -> 1
      [] label = "Monitor for signs of overtraining, consider extra rest" -> 2
      [] label = "Check hydration, sleep quality, and stress levels" -> 3
      [] label = "Aim for at least 7 hours of sleep per night" -> 4
      [] label \in {"Good time to push harder in workouts",
                    "Focus on recovery - lighter workouts, more sleep"} -> 5
      [] OTHER -> 6

\* the rules whose recommendation is in the list
RulesRecommending(o) ==
    {RecRuleIndex(o.recommendations[k].rule) : k \in 1..Len(o.recommendations)}

\* the metrics rule i reads: recovery change, HRV change, RHR change, sleep
\* average, 70%+ recovery days, strain / recovery balance
MetricsOfRule(i) ==
    CASE i = 1 -> {"recoveryScore"}
      [] i = 2 -> {"hrv"}
      [] i = 3 -> {"rhr"}
      [] i = 4 -> {"sleepHours"}
      [] i = 5 -> {"recoveryScore"}
      [] OTHER -> {"strain", "recoveryScore"}

\* this week has a record with a value for the metric
ThisWeekHas(key) == NonNullAt(dailyData, ThisWeekAt, key) # {}

\* C25: in a returned whoop_get_trends a rule writes an insight or a
\* recommendation only if this week has data for each metric it reads: with
\* no non-null recoveryScore this week there is no insight and no
\* recommendation of the recovery rules, the rule on the number of 70%+ days
\* included; and when every one of the 14 records is all null, insights and
\* recommendations are both empty.
C25_InsightsOnlyFromData ==
    (Done /\ tool = "trends") =>
        /\ \A i \in RulesFired(Output) \cup RulesRecommending(Output) :
              \A key \in MetricsOfRule(i) : ThisWeekHas(key)
        /\ (\A k \in 1..Len(dailyData) : AllNull(dailyData[k])) =>
              /\ Output.insights = <<>>
              /\ Output.recommendations = <<>>

\* whoop_get_trends has returned after every fetch threw: its 14 records are
\* all null, and it reports "Only 0 days with good recovery this week" with
\* the recommendation to focus on recovery
C25_Witness ==
    /\ Done
    /\ tool = "trends"
    /\ Len(dailyData) = 14
    /\ \A k \in 1..Len(dailyData) : AllNull(dailyData[k])
    /\ Output.insights = <<Line("Only days with good recovery", Some(0))>>
    /\ Output.recommendations
          = <<Line("Focus on recovery - lighter workouts, more sleep", Null)>>

(***************************************************************************)
(* C26: the percentage shown in the recovery insight.                      *)
(***************************************************************************)
\* the insights written by the recovery rule
RecoveryInsights(o) ==
    {k \in 1..Len(o.insights) :
        o.insights[k].rule \in {"Recovery improved", "Recovery declined"}}

\* C26: whenever a returned whoop_get_trends has a "Recovery improved by N%"
\* or "Recovery declined by N%" insight, changes.recoveryChange is not null
\* and N is its absolute value: N is never null and never a number standing
\* in for a missing change.
C26_RecoveryInsightShowsChange ==
    (Done /\ tool = "trends") =>
        \A k \in RecoveryInsights(Output) :
            /\ Output.weekOverWeek.changes.recoveryChange # Null
            /\ Output.insights[k].n
                  = Some(Abs(Val(Output.weekOverWeek.changes.recoveryChange)))

\* whoop_get_trends has returned "Recovery improved by null% this week": last
\* week's average recovery is 0, this week's is not
C26_Witness ==
    /\ Done
    /\ tool = "trends"
    /\ Output.weekOverWeek.lastWeek.avgRecovery = Some(0)
    /\ Output.weekOverWeek.thisWeek.avgRecovery # Null
    /\ Output.weekOverWeek.changes.recoveryChange = Null
    /\ \E k \in RecoveryInsights(Output) :
          Output.insights[k] = Line("Recovery improved", Null)

(***************************************************************************)
(* C27: the trend labels of whoop_get_history and a first average of 0.    *)
(***************************************************************************)
\* the first window has values for the metric and they are all 0
FirstAverageZero(key) ==
    LET at == NonNullAt(dailyData, 1..midpoint(dailyData), key)
    IN at # {} /\ \A k \in at : Val(dailyData[k][key]) = 0

\* C27: in a returned whoop_get_history a metric whose first-half average is
\* 0 is labelled neither "improving" nor "declining": no label comes from a
\* division by zero.
C27_NoTrendFromZeroAverage ==
    (Done /\ tool = "history") =>
        /\ FirstAverageZero("recoveryScore") =>
              Output.trends.recoveryTrend \notin {"improving", "declining"}
        /\ FirstAverageZero("strain") =>
              Output.trends.strainTrend \notin {"improving", "declining"}
        /\ FirstAverageZero("sleepHours") =>
              Output.trends.sleepTrend \notin {"improving", "declining"}

\* whoop_get_history over two days has returned with recovery and strain 0 on
\* the first day and above 0 on the second, both labelled "improving"
C27_Witness ==
    /\ Done
    /\ tool = "history"
    /\ days = 2
    /\ Len(dailyData) = 2
    /\ dailyData[1].recoveryScore = Some(0)
    /\ dailyData[1].strain = Some(0)
    /\ dailyData[2].recoveryScore # Null /\ Val(dailyData[2].recoveryScore) > 0
    /\ Output.trends.recoveryTrend = "improving"
    /\ Output.trends.strainTrend = "improving"

(***************************************************************************)
(* C28: recommendations go with insights.                                  *)
(***************************************************************************)
\* the insight pushed in the branch that pushes the recommendation
InsightOf(label) ==
    CASE label = "Consider prioritizing sleep and reducing strain" -> "Recovery declined"
      [] label = "Monitor for signs of overtraining, consider extra rest" -> "HRV decreased"
      [] label = "Check hydration, sleep quality, and stress levels"
           -> "Resting heart rate increased"
      [] label = "Aim for at least 7 hours of sleep per night" -> "Average sleep this week"
      [] label = "Good time to push harder in workouts" -> "Strong week"
      [] label = "Focus on recovery - lighter workouts, more sleep"
           -> "Only days with good recovery"
      [] label = "Take a rest day or do active recovery"
           -> "Strain/recovery balance indicates overreaching"
      [] OTHER -> "You have capacity for more training load"

\* C28: in every returned whoop_get_trends each recommendation is written by
\* a rule that wrote an insight in the same result, namely the insight of the
\* same branch; a rule writes at most one recommendation; recommendations are
\* no more than insights, none when there is no insight, and in the same rule
\* order as the insights.
C28_RecommendationsFollowInsights ==
    (Done /\ tool = "trends") =>
        LET ins == Output.insights
            rec == Output.recommendations
        IN /\ \A k \in 1..Len(rec) :
                 \E j \in 1..Len(ins) :
                    /\ ins[j].rule = InsightOf(rec[k].rule)
                    /\ RuleIndex(ins[j].rule) = RecRuleIndex(rec[k].rule)
           /\ \A k \in 1..(Len(rec) - 1) :
                 RecRuleIndex(rec[k].rule) < RecRuleIndex(rec[k + 1].rule)
           /\ Len(rec) <= Len(ins)
           /\ ins = <<>> => rec = <<>>

\* whoop_get_trends has returned several recommendations and more insights
\* than recommendations
C28_Witness ==
    /\ Done
    /\ tool = "trends"
    /\ Len(Output.recommendations) >= 2
    /\ Len(Output.insights) > Len(Output.recommendations)

\* whoop_get_trends has returned with neither insight nor recommendation
C28_WitnessEmpty ==
    /\ Done
    /\ tool = "trends"
    /\ Output.insights = <<>>
    /\ Output.recommendations = <<>>

(***************************************************************************)
(* C29: the weekday patterns of whoop_get_history.                         *)
(***************************************************************************)
\* the weekday a date falls on
WeekdayOf(date) == weekdays[(date % 7) + 1]
\* the positions of the records of the weekday that have a recovery score
ScoredOn(w) ==
    {k \in 1..Len(dailyData) :
        WeekdayOf(dailyData[k].date) = w /\ dailyData[k].recoveryScore # Null}
\* the place of a weekday in the order Sunday .. Saturday
WeekdayIndex(w) == CHOOSE k \in 1..Len(weekdays) : weekdays[k] = w

\* day is the first weekday, Sunday first, whose entry of avg is extreme
\* under AtLeastAsGood
FirstExtremeDay(day, avg, AtLeastAsGood(_, _)) ==
    /\ day # Null
    /\ Val(day) \in DOMAIN avg
    /\ \A w \in DOMAIN avg :
          /\ AtLeastAsGood(avg[Val(day)], avg[w])
          /\ avg[w] = avg[Val(day)] => WeekdayIndex(Val(day)) <= WeekdayIndex(w)

\* C29: in a returned whoop_get_history avgByDay has an entry for a weekday
\* iff a record of that weekday has a non-null recoveryScore, the entry being
\* the rounded mean of those scores; bestRecoveryDay and worstRecoveryDay are
\* the weekdays of the largest and the smallest entry, the first of them in
\* the order Sunday .. Saturday when several share it, and both are null iff
\* no record has a recoveryScore; a day whose fetch failed is in no bucket.
C29_WeekdayPatterns ==
    (Done /\ tool = "history") =>
        LET p == Output.weekdayPatterns
        IN /\ DOMAIN p.avgByDay = {w \in WeekdayNames : ScoredOn(w) # {}}
           /\ \A w \in DOMAIN p.avgByDay :
                 NearestInt(p.avgByDay[w], SumAt(dailyData, ScoredOn(w), "recoveryScore"),
                            Cardinality(ScoredOn(w)))
           /\ Scored = {} <=> p.bestRecoveryDay = Null
           /\ Scored = {} <=> p.worstRecoveryDay = Null
           /\ Scored # {} =>
                 /\ FirstExtremeDay(p.bestRecoveryDay, p.avgByDay, AtLeast)
                 /\ FirstExtremeDay(p.worstRecoveryDay, p.avgByDay, AtMost)
           /\ \A w \in WeekdayNames :
                 /\ weekdayTotals[w].count = Cardinality(ScoredOn(w))
                 /\ weekdayTotals[w].sum = SumAt(dailyData, ScoredOn(w), "recoveryScore")

\* whoop_get_history over one day has returned on a server west of UTC: the
\* record's date has a recovery score, avgByDay has no entry for the weekday
\* of that date, and the best and worst day are the weekday before it
C29_Witness ==
    /\ Done
    /\ tool = "history"
    /\ days = 1
    /\ zone = 0 - 1
    /\ Len(dailyData) = 1
    /\ dailyData[1].recoveryScore = Some(80)
    /\ WeekdayOf(dailyData[1].date) \notin DOMAIN Output.weekdayPatterns.avgByDay
    /\ Output.weekdayPatterns.avgByDay
          = [w \in {WeekdayOf(dailyData[1].date - 1)} |-> 80]
    /\ Output.weekdayPatterns.bestRecoveryDay = Some(WeekdayOf(dailyData[1].date - 1))
    /\ Output.weekdayPatterns.worstRecoveryDay = Some(WeekdayOf(dailyData[1].date - 1))

\* whoop_get_history over 90 days has returned: a fetch threw, every weekday
\* has an entry, two weekdays share the largest entry and the earlier of them
\* is bestRecoveryDay
C29_WitnessTie ==
    /\ Done
    /\ tool = "history"
    /\ days = MaxHistoryDays
    /\ \E k \in HomeCalls : fetchLog[k].threw
    /\ DOMAIN Output.weekdayPatterns.avgByDay = WeekdayNames
    /\ \E w \in WeekdayNames :
          /\ w # Val(Output.weekdayPatterns.bestRecoveryDay)
          /\ Output.weekdayPatterns.avgByDay[w]
                = Output.weekdayPatterns.avgByDay[Val(Output.weekdayPatterns.bestRecoveryDay)]
          /\ WeekdayIndex(Val(Output.weekdayPatterns.bestRecoveryDay)) < WeekdayIndex(w)
    /\ Output.weekdayPatterns.bestRecoveryDay # Output.weekdayPatterns.worstRecoveryDay

\* whoop_get_history has returned without any recovery score: no entry, no
\* best and no worst day
C29_WitnessNoScore ==
    /\ Done
    /\ tool = "history"
    /\ Len(dailyData) > 0
    /\ Output.weekdayPatterns.avgByDay = << >>
    /\ Output.weekdayPatterns.bestRecoveryDay = Null
    /\ Output.weekdayPatterns.worstRecoveryDay = Null

====
